---- MODULE Spec2Model ----
(***************************************************************************)
(* The financial-disclosure viewer: statement normalisation                 *)
(* (opendart_service.py), key-metric extraction (gemini_service.py), the    *)
(* company registry (create_database.py, app.py), the bulk-feed converters  *)
(* (opendart_downloader.py, convert_xml_to_json.py) and the calls to the    *)
(* two external services.                                                   *)
(*                                                                         *)
(* Python values are encoded as tagged records:                            *)
(*   None  -> [t |-> "null"]                                               *)
(*   str   -> [t |-> "str", v |-> <<c1, ..., cn>>]  one token per character *)
(*   int   -> [t |-> "num", v |-> n]                                       *)
(*   dict  -> [t |-> "obj", f |-> function from the present keys]          *)
(*   float -> [t |-> "float", nan |-> BOOLEAN, v |-> integer value]        *)
(* A Hangul syllable is one character of the source string and is written  *)
(* here as one romanised token ("ja" for U+C790, "san" for U+C0B0, ...),   *)
(* so that substring tests see the same overlaps as the source does.       *)
(***************************************************************************)
EXTENDS Integers, Sequences, FiniteSets, TLC

VARIABLES pc, raw_data, formatted_data, key_metrics, line_item, line_account,
          companies, autoinc, feed_log, before, query, results,
          xml_file, json_file, converted,
          replies, requests_sent, prompt_sent, response

(* the statement pipeline *)
pipeVars == <<raw_data, formatted_data, key_metrics, line_item, line_account>>
(* the company registry: the table, its AUTOINCREMENT counter, the feeds *)
(* loaded so far, the table before the last load, and the last search    *)
storeVars == <<companies, autoinc, feed_log, before, query, results>>
(* the bulk-feed conversion: the XML document, the record file written *)
(* (if any) and the value returned                                     *)
parserVars == <<xml_file, json_file, converted>>
(* the external services: what they reply to successive requests of the *)
(* last call, the requests issued by it, the prompt posted to the       *)
(* generator (if any), and what the call returned                       *)
serviceVars == <<replies, requests_sent, prompt_sent, response>>

vars == <<pc, pipeVars, storeVars, parserVars, serviceVars>>

(* Bounds of the model. *)
MaxStrLen == 3
MaxItems == 3
MaxFsItems == 4

----------------------------------------------------------------------------
(* Python values *)

JNull == [t |-> "null"]
JStr(s) == [t |-> "str", v |-> s]
JNum(n) == [t |-> "num", v |-> n]
JObj(f) == [t |-> "obj", f |-> f]
JArr(s) == [t |-> "arr", v |-> s]
Float(n) == [t |-> "float", nan |-> FALSE, v |-> n]
NaN == [t |-> "float", nan |-> TRUE, v |-> 0]
EmptyDict == [k \in {} |-> JNull]
NoValue == [t |-> "none"]

IsStr(x) == x.t = "str"
IsDict(x) == x.t = "obj"

(* bool(x) of a Python value: None, '', 0, {} and [] are falsy *)
Truthy(x) ==
  CASE x.t = "null" -> FALSE
    [] x.t = "str" -> x.v # <<>>
    [] x.t = "num" -> x.v # 0
    [] x.t = "obj" -> DOMAIN x.f # {}
    [] x.t = "arr" -> x.v # <<>>
    [] OTHER -> TRUE

(* dict.get(key, default) *)
Get(d, key, default) == IF key \in DOMAIN d.f THEN d.f[key] ELSE default

----------------------------------------------------------------------------
(* Strings *)

Digits == {"0", "1", "2", "3", "4", "5", "6", "7", "8", "9"}

DigitVal(c) ==
  CASE c = "0" -> 0 [] c = "1" -> 1 [] c = "2" -> 2 [] c = "3" -> 3
    [] c = "4" -> 4 [] c = "5" -> 5 [] c = "6" -> 6 [] c = "7" -> 7
    [] c = "8" -> 8 [] c = "9" -> 9

RECURSIVE Remove(_, _)
(* str.replace(c, '') *)
Remove(s, c) ==
  IF s = <<>> THEN <<>>
  ELSE IF Head(s) = c THEN Remove(Tail(s), c)
  ELSE <<Head(s)>> \o Remove(Tail(s), c)

RECURSIVE DecimalValue(_)
(* value of a non-empty sequence of decimal digits *)
DecimalValue(s) ==
  IF s = <<>> THEN 0
  ELSE DecimalValue(SubSeq(s, 1, Len(s) - 1)) * 10 + DigitVal(s[Len(s)])

AllDigits(s) == s # <<>> /\ \A i \in 1..Len(s) : s[i] \in Digits

(* float(s) for strings over digits, ',', '-', 'n', 'a': an optional sign  *)
(* followed by decimal digits or by "nan"; anything else is a ValueError.  *)
PyFloat(s) ==
  LET neg == s # <<>> /\ Head(s) = "-"
      body == IF neg THEN Tail(s) ELSE s
  IN  IF body = <<"n", "a", "n">> THEN [ok |-> TRUE, val |-> NaN]
      ELSE IF AllDigits(body)
        THEN [ok |-> TRUE,
              val |-> Float(IF neg THEN 0 - DecimalValue(body) ELSE DecimalValue(body))]
      ELSE [ok |-> FALSE, val |-> Float(0)]

(* OpenDartService._parse_amount: the bare except turns the AttributeError *)
(* of a non-string and the ValueError of float() into 0.0.                 *)
parse_amount(a) ==
  IF ~Truthy(a) \/ a = JStr(<<>>) THEN Float(0)
  ELSE IF ~IsStr(a) THEN Float(0)
  ELSE LET r == PyFloat(Remove(a.v, ","))
       IN  IF r.ok THEN r.val ELSE Float(0)

----------------------------------------------------------------------------
(* OpenDartService.format_financial_data *)

(* the account_data dict built for one line item (a dict) *)
AccountData(item) ==
  [account_name |-> Get(item, "account_nm", JStr(<<>>)),
   fs_type |-> Get(item, "fs_div", JStr(<<>>)),
   statement_type |-> Get(item, "sj_div", JStr(<<>>)),
   current_amount |-> parse_amount(Get(item, "thstrm_amount", JStr(<<"0">>))),
   current_accumulated |-> parse_amount(Get(item, "thstrm_add_amount", JStr(<<"0">>))),
   previous_amount |-> parse_amount(Get(item, "frmtrm_amount", JStr(<<"0">>))),
   previous_accumulated |-> parse_amount(Get(item, "frmtrm_add_amount", JStr(<<"0">>))),
   currency |-> Get(item, "currency", JStr(<<"KRW">>))]

EmptyStatements == [balance_sheet |-> <<>>, income_statement |-> <<>>, cash_flow |-> <<>>]

(* one iteration of the classification loop; item is a dict *)
Classify(fs, item) ==
  LET sj_div == Get(item, "sj_div", JStr(<<>>))
      account_data == AccountData(item)
  IN  IF sj_div = JStr(<<"BS">>)
        THEN [fs EXCEPT !.balance_sheet = Append(@, account_data)]
      ELSE IF sj_div = JStr(<<"IS">>)
        THEN [fs EXCEPT !.income_statement = Append(@, account_data)]
      ELSE [fs EXCEPT !.cash_flow = Append(@, account_data)]

RECURSIVE ClassifyAll(_, _, _)
(* the loop over raw_data['list'] from index i on: item.get raises          *)
(* AttributeError on the first item that is not a dict and the loop is left *)
(* with the buckets filled so far.                                          *)
ClassifyAll(fs, list, i) ==
  IF i > Len(list) THEN [raised |-> FALSE, fs |-> fs]
  ELSE IF ~IsDict(list[i]) THEN [raised |-> TRUE, fs |-> fs]
  ELSE ClassifyAll(Classify(fs, list[i]), list, i + 1)

(* substring test:  pat in s *)
Contains(s, pat) ==
  \E i \in 0..(Len(s) - Len(pat)) : SubSeq(s, i + 1, i + Len(pat)) = pat

S_total_assets == <<"ja", "san", "chong", "gye">>
S_total_assets_sp == <<"ja", "san", " ", "chong", "gye">>
S_total_equity == <<"ja", "bon", "chong", "gye">>
S_total_equity_sp == <<"ja", "bon", " ", "chong", "gye">>
S_total_liabilities == <<"bu", "chae", "chong", "gye">>
S_total_liabilities_sp == <<"bu", "chae", " ", "chong", "gye">>
S_current_assets == <<"yu", "dong", "ja", "san">>
S_current_liabilities == <<"yu", "dong", "bu", "chae">>
S_revenue == <<"mae", "chul", "aek">>
S_revenue_paren == <<"su", "ik", "(", "mae", "chul", "aek", ")">>
S_operating_income == <<"yeong", "eop", "i", "ik">>
S_net_income == <<"dang", "gi", "sun", "i", "ik">>
S_gross_profit == <<"mae", "chul", "chong", "i", "ik">>
S_net_profit_loss == <<"dang", "gi", "sun", "son", "ik">>
E_total_assets == <<"T", "o", "t", "a", "l", " ", "A", "s", "s", "e", "t", "s">>
E_total_liabilities ==
  <<"T", "o", "t", "a", "l", " ", "L", "i", "a", "b", "i", "l", "i", "t", "i", "e", "s">>
E_total_equity == <<"T", "o", "t", "a", "l", " ", "E", "q", "u", "i", "t", "y">>
E_revenue == <<"R", "e", "v", "e", "n", "u", "e">>
E_net_income == <<"N", "e", "t", " ", "I", "n", "c", "o", "m", "e">>

ZeroSummary ==
  [total_assets |-> Float(0), total_liabilities |-> Float(0), total_equity |-> Float(0),
   revenue |-> Float(0), net_income |-> Float(0)]

RECURSIVE SummaryBS(_, _, _)
(* the balance-sheet loop of _create_summary: a later match overwrites; the *)
(* TypeError of `in` on a name that is not a string ends the whole function *)
SummaryBS(summary, items, i) ==
  IF i > Len(items) THEN [raised |-> FALSE, summary |-> summary]
  ELSE LET account_name == items[i].account_name
           current_amount == items[i].current_amount
       IN  IF ~IsStr(account_name) THEN [raised |-> TRUE, summary |-> summary]
           ELSE IF Contains(account_name.v, S_total_assets) \/ Contains(account_name.v, E_total_assets)
             THEN SummaryBS([summary EXCEPT !.total_assets = current_amount], items, i + 1)
           ELSE IF Contains(account_name.v, S_total_liabilities)
                   \/ Contains(account_name.v, E_total_liabilities)
             THEN SummaryBS([summary EXCEPT !.total_liabilities = current_amount], items, i + 1)
           ELSE IF Contains(account_name.v, S_total_equity) \/ Contains(account_name.v, E_total_equity)
             THEN SummaryBS([summary EXCEPT !.total_equity = current_amount], items, i + 1)
           ELSE SummaryBS(summary, items, i + 1)

RECURSIVE SummaryIS(_, _, _)
SummaryIS(summary, items, i) ==
  IF i > Len(items) THEN [raised |-> FALSE, summary |-> summary]
  ELSE LET account_name == items[i].account_name
           current_amount == items[i].current_amount
       IN  IF ~IsStr(account_name) THEN [raised |-> TRUE, summary |-> summary]
           ELSE IF Contains(account_name.v, S_revenue) \/ Contains(account_name.v, E_revenue)
             THEN SummaryIS([summary EXCEPT !.revenue = current_amount], items, i + 1)
           ELSE IF Contains(account_name.v, S_net_profit_loss) \/ Contains(account_name.v, E_net_income)
             THEN SummaryIS([summary EXCEPT !.net_income = current_amount], items, i + 1)
           ELSE SummaryIS(summary, items, i + 1)

(* OpenDartService._create_summary: its own try/except returns the summary *)
(* as far as it was filled.                                                 *)
create_summary(financial_data) ==
  LET bs == SummaryBS(ZeroSummary, financial_data.balance_sheet, 1)
  IN  IF bs.raised THEN bs.summary
      ELSE SummaryIS(bs.summary, financial_data.income_statement, 1).summary

ErrNoGet == "format error: object has no attribute 'get'"
ErrNotIterable == "format error: object is not iterable"

HasList(raw) == "list" \in DOMAIN raw.f

(* the three fields read from the first line item *)
CompanyInfo(first_item) ==
  [stock_code |-> Get(first_item, "stock_code", JStr(<<>>)),
   report_date |-> Get(first_item, "thstrm_dt", JStr(<<>>)),
   report_type |-> Get(first_item, "reprt_code", JStr(<<>>))]

Formatted(company_info, fs, summary) ==
  JObj([company_info |-> company_info, financial_statements |-> fs, summary |-> summary])

WithError(formatted, msg) == JObj(formatted.f @@ [error |-> msg])

(* the try block of format_financial_data.  raw['list'], when present, is *)
(* None or a list.  An exception anywhere in the block leaves             *)
(* formatted_data as built so far and adds the 'error' key.               *)
Normalize(raw) ==
  IF HasList(raw) /\ Truthy(raw.f.list) /\ ~IsDict(raw.f.list.v[1])
    THEN WithError(Formatted(EmptyDict, EmptyStatements, EmptyDict), ErrNoGet)
  ELSE LET company_info ==
             IF HasList(raw) /\ Truthy(raw.f.list) THEN CompanyInfo(raw.f.list.v[1])
             ELSE EmptyDict
       IN  IF ~HasList(raw)
             THEN Formatted(company_info, EmptyStatements, create_summary(EmptyStatements))
           ELSE IF raw.f.list = JNull
             THEN WithError(Formatted(company_info, EmptyStatements, EmptyDict), ErrNotIterable)
           ELSE LET loop == ClassifyAll(EmptyStatements, raw.f.list.v, 1)
                IN  IF loop.raised
                      THEN WithError(Formatted(company_info, loop.fs, EmptyDict), ErrNoGet)
                    ELSE Formatted(company_info, loop.fs, create_summary(loop.fs))

(* format_financial_data without the early return on 'error' *)
format_financial_data_unchecked(raw) == Normalize(raw)

(* OpenDartService.format_financial_data *)
format_financial_data(raw) ==
  IF "error" \in DOMAIN raw.f THEN raw ELSE Normalize(raw)

----------------------------------------------------------------------------
(* GeminiService._extract_key_metrics and _calculate_ratios *)

Pair(item) == [current |-> item.current_amount, previous |-> item.previous_amount]

(* d[key] = value on a dict held as a function *)
Put(d, key, value) == (key :> value) @@ d

(* the balance-sheet chain with the two "current" labels tested first *)
BSMetricOfCurrentFirst(name) ==
  IF Contains(name, S_current_assets) THEN "current_assets"
  ELSE IF Contains(name, S_current_liabilities) THEN "current_liabilities"
  ELSE IF Contains(name, S_total_assets) \/ Contains(name, S_total_assets_sp) THEN "total_assets"
  ELSE IF Contains(name, S_total_equity) \/ Contains(name, S_total_equity_sp) THEN "total_equity"
  ELSE IF Contains(name, S_total_liabilities) \/ Contains(name, S_total_liabilities_sp)
    THEN "total_liabilities"
  ELSE "none"

(* the if/elif chain of the balance-sheet loop: the metric a label sets *)
BSMetricOf(name) ==
  IF Contains(name, S_total_assets) \/ Contains(name, S_total_assets_sp) THEN "total_assets"
  ELSE IF Contains(name, S_total_equity) \/ Contains(name, S_total_equity_sp) THEN "total_equity"
  ELSE IF Contains(name, S_total_liabilities) \/ Contains(name, S_total_liabilities_sp)
    THEN "total_liabilities"
  ELSE IF Contains(name, S_current_assets) THEN "current_assets"
  ELSE IF Contains(name, S_current_liabilities) THEN "current_liabilities"
  ELSE "none"

(* the if/elif chain of the income-statement loop *)
ISMetricOf(name) ==
  IF Contains(name, S_revenue) \/ Contains(name, S_revenue_paren) THEN "revenue"
  ELSE IF Contains(name, S_operating_income) THEN "operating_income"
  ELSE IF Contains(name, S_net_income) THEN "net_income"
  ELSE IF Contains(name, S_gross_profit) THEN "gross_profit"
  ELSE "none"

RECURSIVE ScanBS(_, _, _)
(* the balance-sheet loop: every matching item assigns its metric; `in` on *)
(* an account_name that is not a string raises TypeError                   *)
ScanBS(found, items, i) ==
  IF i > Len(items) THEN [raised |-> FALSE, found |-> found]
  ELSE IF ~IsStr(items[i].account_name) THEN [raised |-> TRUE, found |-> found]
  ELSE LET m == BSMetricOf(items[i].account_name.v)
       IN  IF m = "none" THEN ScanBS(found, items, i + 1)
           ELSE ScanBS(Put(found, m, Pair(items[i])), items, i + 1)

RECURSIVE ScanIS(_, _, _)
ScanIS(found, items, i) ==
  IF i > Len(items) THEN [raised |-> FALSE, found |-> found]
  ELSE IF ~IsStr(items[i].account_name) THEN [raised |-> TRUE, found |-> found]
  ELSE LET m == ISMetricOf(items[i].account_name.v)
       IN  IF m = "none" THEN ScanIS(found, items, i + 1)
           ELSE ScanIS(Put(found, m, Pair(items[i])), items, i + 1)

Abs(n) == IF n < 0 THEN 0 - n ELSE n

(* n/d cut off towards minus infinity instead of rounded (d # 0) *)
RoundDown(n, d) ==
  LET nn == IF d < 0 THEN 0 - n ELSE n
  IN  nn \div Abs(d)

(* n/d rounded to the nearest integer, ties to the even one (d # 0) *)
RoundHalfEven(n, d) ==
  LET nn == IF d < 0 THEN 0 - n ELSE n
      dd == Abs(d)
      q == nn \div dd
      r == nn - q * dd
  IN  IF 2 * r < dd THEN q
      ELSE IF 2 * r > dd THEN q + 1
      ELSE IF q % 2 = 0 THEN q ELSE q + 1

(* a ratio value is held in hundredths: [nan, cents] stands for cents/100 *)
RatioValue(c) == [nan |-> FALSE, cents |-> c]
RatioNaN == [nan |-> TRUE, cents |-> 0]

(* x != 0 on floats: NaN compares unequal to everything *)
NonZero(x) == x.nan \/ x.v # 0

(* round((num / den) * 100, 2) *)
Percent(num, den) ==
  IF num.nan \/ den.nan THEN RatioNaN
  ELSE RatioValue(RoundHalfEven(10000 * num.v, den.v))

(* round(((cur - prev) / prev) * 100, 2) *)
Growth(cur, prev) ==
  IF cur.nan \/ prev.nan THEN RatioNaN
  ELSE RatioValue(RoundHalfEven(10000 * (cur.v - prev.v), prev.v))

Has(d, key) == key \in DOMAIN d

(* debt ratio that falls back to 0.0 on a zero equity instead of omitting *)
DebtToEquityZeroDefault(bs) ==
  IF Has(bs, "total_liabilities") /\ Has(bs, "total_equity")
    THEN IF NonZero(bs["total_equity"].current)
           THEN "debt_to_equity_ratio"
                  :> Percent(bs["total_liabilities"].current, bs["total_equity"].current)
         ELSE "debt_to_equity_ratio" :> RatioValue(0)
  ELSE EmptyDict

(* the debt-ratio block: the entry it adds to ratios, if any *)
DebtToEquity(bs) ==
  IF Has(bs, "total_liabilities") /\ Has(bs, "total_equity")
     /\ NonZero(bs["total_equity"].current)
    THEN "debt_to_equity_ratio"
           :> Percent(bs["total_liabilities"].current, bs["total_equity"].current)
  ELSE EmptyDict

(* equity ratio that is also omitted when the equity itself is zero *)
EquityRatioGuardsEquity(bs) ==
  IF Has(bs, "total_equity") /\ Has(bs, "total_assets")
     /\ NonZero(bs["total_assets"].current) /\ NonZero(bs["total_equity"].current)
    THEN "equity_ratio" :> Percent(bs["total_equity"].current, bs["total_assets"].current)
  ELSE EmptyDict

(* the equity-ratio block *)
EquityRatio(bs) ==
  IF Has(bs, "total_equity") /\ Has(bs, "total_assets")
     /\ NonZero(bs["total_assets"].current)
    THEN "equity_ratio" :> Percent(bs["total_equity"].current, bs["total_assets"].current)
  ELSE EmptyDict

(* the current-ratio block *)
CurrentRatio(bs) ==
  IF Has(bs, "current_assets") /\ Has(bs, "current_liabilities")
     /\ NonZero(bs["current_liabilities"].current)
    THEN "current_ratio"
           :> Percent(bs["current_assets"].current, bs["current_liabilities"].current)
  ELSE EmptyDict

(* the ROE block *)
Roe(bs, is_data) ==
  IF Has(is_data, "net_income") /\ Has(bs, "total_equity")
     /\ NonZero(bs["total_equity"].current)
    THEN "roe" :> Percent(is_data["net_income"].current, bs["total_equity"].current)
  ELSE EmptyDict

(* the revenue-growth block *)
RevenueGrowth(is_data) ==
  IF Has(is_data, "revenue") /\ NonZero(is_data["revenue"].previous)
    THEN "revenue_growth_rate"
           :> Growth(is_data["revenue"].current, is_data["revenue"].previous)
  ELSE EmptyDict

(* GeminiService._calculate_ratios.  All amounts are floats, so the    *)
(* arithmetic inside the try block does not raise; the five blocks set *)
(* five different keys.                                                *)
calculate_ratios(metrics) ==
  LET bs == metrics.balance_sheet
      is_data == metrics.income_statement
  IN  DebtToEquity(bs) @@ EquityRatio(bs) @@ CurrentRatio(bs) @@ Roe(bs, is_data)
        @@ RevenueGrowth(is_data)

(* GeminiService._extract_key_metrics: a TypeError of the label test is not *)
(* caught here and leaves the function.                                     *)
extract_key_metrics(balance_sheet, income_statement) ==
  LET b == ScanBS(EmptyDict, balance_sheet, 1)
      i == ScanIS(EmptyDict, income_statement, 1)
  IN  IF b.raised \/ i.raised THEN [raised |-> TRUE]
      ELSE LET metrics == [balance_sheet |-> b.found, income_statement |-> i.found,
                           ratios |-> EmptyDict]
           IN  [raised |-> FALSE,
                metrics |-> [metrics EXCEPT !.ratios = calculate_ratios(metrics)]]

(* the first half of GeminiService.analyze_financial_data: the buckets are *)
(* read with .get and defaults, then the metrics are extracted             *)
analyze_key_metrics(financial_data) ==
  LET financial_statements ==
        IF "financial_statements" \in DOMAIN financial_data.f
          THEN financial_data.f.financial_statements ELSE EmptyStatements
  IN  extract_key_metrics(financial_statements.balance_sheet,
                          financial_statements.income_statement)

----------------------------------------------------------------------------
(* Inputs *)

N_current_assets_total == <<"yu", "dong", "ja", "san", "chong", "gye">>

(* amount texts *)
Amounts ==
  [ n0 |-> <<"0">>,
    n3 |-> <<"3">>,
    n100 |-> <<"1", "0", "0">>,
    n300 |-> <<"3", "0", "0">>,
    n700 |-> <<"7", "0", "0">>,
    n800 |-> <<"8", "0", "0">>,
    n900 |-> <<"9", "0", "0">>,
    n1100 |-> <<"1", ",", "1", "0", "0">>,
    n1234 |-> <<"1", ",", "2", "3", "4">>,
    n1234567 |-> <<"1", ",", "2", "3", "4", ",", "5", "6", "7">>,
    minus200 |-> <<"-", "2", "0", "0">>,
    n400000 |-> <<"4", "0", "0", ",", "0", "0", "0">>,
    n500000 |-> <<"5", "0", "0", ",", "0", "0", "0">>,
    n900000 |-> <<"9", "0", "0", ",", "0", "0", "0">>,
    n1000000 |-> <<"1", ",", "0", "0", "0", ",", "0", "0", "0">>,
    junk |-> <<"a">>,
    empty |-> <<>> ]

(* a line item of the statement response *)
Line(name, sj, cur, prev) ==
  JObj([account_nm |-> JStr(name), sj_div |-> JStr(<<sj>>),
        thstrm_amount |-> JStr(cur), frmtrm_amount |-> JStr(prev)])

(* line items with the labels and amounts the metrics are read from *)
MetricLines ==
  { Line(S_total_assets, "BS", Amounts.n1000000, Amounts.n900000),
    Line(S_total_assets, "BS", Amounts.n0, Amounts.n800),
    Line(S_total_equity, "BS", Amounts.n0, Amounts.n700),
    Line(S_total_equity, "BS", Amounts.n800, Amounts.empty),
    Line(S_total_liabilities, "BS", Amounts.n1100, Amounts.junk),
    Line(S_total_liabilities, "BS", Amounts.n3, Amounts.n0),
    Line(S_current_assets, "BS", Amounts.n700, Amounts.n300),
    Line(S_current_liabilities, "BS", Amounts.n0, Amounts.n100),
    Line(S_current_liabilities, "BS", Amounts.n300, Amounts.n100),
    Line(N_current_assets_total, "BS", Amounts.n900, Amounts.n800),
    Line(S_revenue, "IS", Amounts.n500000, Amounts.n400000),
    Line(S_revenue, "IS", Amounts.n900, Amounts.n0),
    Line(S_net_income, "IS", Amounts.minus200, Amounts.n100),
    JObj([account_nm |-> JNull, sj_div |-> JStr(<<"BS">>), thstrm_amount |-> JStr(Amounts.n100)]) }

(* line items with every kind of statement code and amount, and a list *)
(* element that is not a dict                                          *)
CodeLines ==
  { JObj(code @@ amt @@ [account_nm |-> JStr(S_total_assets)]) :
      code \in {EmptyDict, [sj_div |-> JStr(<<"BS">>)], [sj_div |-> JStr(<<"IS">>)],
                [sj_div |-> JStr(<<"CF">>)]},
      amt \in {EmptyDict, [thstrm_amount |-> JStr(Amounts.n1234)], [thstrm_amount |-> JStr(Amounts.junk)]} }
  \cup {JNull}

(* line items with and without the fields the company metadata is read *)
(* from                                                                *)
InfoLines ==
  { JObj(info @@ Line(S_total_assets, "BS", Amounts.n900, Amounts.n800).f) :
      info \in {EmptyDict,
                [stock_code |-> JStr(<<"5">>), thstrm_dt |-> JStr(<<"d", "1">>),
                 reprt_code |-> JStr(<<"1", "1">>)],
                [stock_code |-> JStr(<<"7">>)],
                [thstrm_dt |-> JNull, reprt_code |-> JStr(<<"1", "2">>)]} }

(* line items of the consolidated (CFS) and the separate (OFS) statement *)
(* for the same two accounts, each with amounts of its own              *)
FsLines ==
  { JObj([fs_div |-> JStr(<<"CFS">>)]
           @@ Line(S_total_assets, "BS", Amounts.n900, Amounts.n800).f),
    JObj([fs_div |-> JStr(<<"OFS">>)]
           @@ Line(S_total_assets, "BS", Amounts.n1100, Amounts.n900).f),
    JObj([fs_div |-> JStr(<<"CFS">>)]
           @@ Line(S_total_equity, "BS", Amounts.n700, Amounts.n300).f),
    JObj([fs_div |-> JStr(<<"OFS">>)]
           @@ Line(S_total_equity, "BS", Amounts.n300, Amounts.n100).f) }

RECURSIVE SeqsUpTo(_, _)
SeqsUpTo(S, n) ==
  IF n = 0 THEN {<<>>}
  ELSE LET shorter == SeqsUpTo(S, n - 1)
       IN  shorter \cup {Append(q, x) : q \in shorter, x \in S}

Status000 == [status |-> JStr(<<"000">>)]
ErrorMessage == JStr(<<"no", " ", "data">>)

(* a success response of the statement service carrying the list l *)
Response(l) == JObj(Status000 @@ [list |-> JArr(l)])

(* the responses with a missing or null list, and the error results of *)
(* get_financial_statement, with and without a list                    *)
OtherResponses ==
  {JObj(Status000), JObj(Status000 @@ [list |-> JNull])}
  \cup {JObj([error |-> ErrorMessage]), JObj([error |-> JNull])}
  \cup {JObj([error |-> ErrorMessage, list |-> JArr(l)]) : l \in SeqsUpTo(CodeLines, 1)}

----------------------------------------------------------------------------
(* The parts of the state a specification does not use: all but 'part' *)

OthersUnused(part) ==
  /\ IF part = "pipe" THEN TRUE
     ELSE /\ raw_data = NoValue /\ formatted_data = NoValue /\ key_metrics = NoValue
          /\ line_item = NoValue /\ line_account = NoValue
  /\ IF part = "store" THEN TRUE
     ELSE /\ companies = NoValue /\ autoinc = NoValue /\ feed_log = NoValue
          /\ before = NoValue /\ query = NoValue /\ results = NoValue
  /\ IF part = "parser" THEN TRUE
     ELSE xml_file = NoValue /\ json_file = NoValue /\ converted = NoValue
  /\ IF part = "service" THEN TRUE
     ELSE /\ replies = NoValue /\ requests_sent = NoValue
          /\ prompt_sent = NoValue /\ response = NoValue

----------------------------------------------------------------------------
(* The statement pipeline: normalise the response, then extract the metrics *)

Init ==
  /\ pc = "fetched"
  /\ \/ \E n \in 0..MaxItems : \E l \in [1..n -> MetricLines] : raw_data = Response(l)
     \/ \E n \in 1..MaxItems : \E l \in [1..n -> CodeLines] : raw_data = Response(l)
     \/ \E n \in 1..MaxItems : \E l \in [1..n -> InfoLines] : raw_data = Response(l)
     \/ \E n \in 1..MaxFsItems : \E l \in [1..n -> FsLines] : raw_data = Response(l)
     \/ raw_data \in OtherResponses
  /\ formatted_data = NoValue
  /\ key_metrics = NoValue
  /\ line_item = NoValue
  /\ line_account = NoValue
  /\ OthersUnused("pipe")

(* formatted_data = dart_service.format_financial_data(raw_data) *)
FormatFinancialData ==
  /\ pc = "fetched"
  /\ formatted_data' = format_financial_data(raw_data)
  /\ pc' = "formatted"
  /\ UNCHANGED <<raw_data, key_metrics, line_item, line_account>>
  /\ UNCHANGED <<storeVars, parserVars, serviceVars>>

(* key_metrics = self._extract_key_metrics(balance_sheet, income_statement) *)
ExtractKeyMetrics ==
  /\ pc = "formatted"
  /\ key_metrics' = analyze_key_metrics(formatted_data)
  /\ pc' = "extracted"
  /\ UNCHANGED <<raw_data, formatted_data, line_item, line_account>>
  /\ UNCHANGED <<storeVars, parserVars, serviceVars>>

Next == FormatFinancialData \/ ExtractKeyMetrics

Spec == Init /\ [][Next]_vars

----------------------------------------------------------------------------
(* Amount coercion on its own: a line item whose current amount is any *)
(* value of up to MaxStrLen characters                                 *)

AmountAlphabet == {"0", "1", "2", ",", "-", "n", "a"}

AmountValues ==
  {JNull, JNum(0), JNum(12), JStr(Amounts.n1234567)}
  \cup {JStr(a) : a \in SeqsUpTo(AmountAlphabet, MaxStrLen)}

AmountItems ==
  {JObj([account_nm |-> JStr(S_revenue), sj_div |-> JStr(<<"IS">>),
         thstrm_amount |-> a, frmtrm_amount |-> JStr(Amounts.n1234)]) : a \in AmountValues}
  \cup {JObj([account_nm |-> JStr(S_revenue), sj_div |-> JStr(<<"IS">>),
              frmtrm_amount |-> JStr(Amounts.n1234)])}

InitAmount ==
  /\ pc = "item"
  /\ line_item \in AmountItems
  /\ line_account = NoValue
  /\ raw_data = NoValue
  /\ formatted_data = NoValue
  /\ key_metrics = NoValue
  /\ OthersUnused("pipe")

(* the account_data of one loop iteration *)
BuildAccountData ==
  /\ pc = "item"
  /\ line_account' = AccountData(line_item)
  /\ pc' = "item_done"
  /\ UNCHANGED <<line_item, raw_data, formatted_data, key_metrics>>
  /\ UNCHANGED <<storeVars, parserVars, serviceVars>>

NextAmount == BuildAccountData

SpecAmount == InitAmount /\ [][NextAmount]_vars

----------------------------------------------------------------------------
(* Properties of the statement pipeline *)

Normalized == pc \in {"formatted", "extracted"}
NoErrorIndicator == "error" \notin DOMAIN raw_data.f
Extracted == pc = "extracted" /\ ~key_metrics.raised

(* the line items of the raw response *)
RawLineItems ==
  IF HasList(raw_data) /\ raw_data.f.list # JNull THEN raw_data.f.list.v ELSE <<>>

(* the buckets the extractor reads *)
Statement(bucket) ==
  IF "financial_statements" \in DOMAIN formatted_data.f
    THEN formatted_data.f.financial_statements[bucket]
  ELSE <<>>

BucketFor(x) ==
  IF IsDict(x) /\ Get(x, "sj_div", JStr(<<>>)) = JStr(<<"BS">>) THEN "balance_sheet"
  ELSE IF IsDict(x) /\ Get(x, "sj_div", JStr(<<>>)) = JStr(<<"IS">>) THEN "income_statement"
  ELSE "cash_flow"

CountFor(bucket) ==
  Cardinality({i \in 1..Len(RawLineItems) : BucketFor(RawLineItems[i]) = bucket})

BucketNames == {"balance_sheet", "income_statement", "cash_flow"}
SummaryNames == {"total_assets", "total_liabilities", "total_equity", "revenue", "net_income"}

(* C1: for a raw response without an error indicator every line item is in *)
(* exactly one bucket, BS in balance_sheet, IS in income_statement, every  *)
(* other or missing code in the third, and the bucket sizes sum to the     *)
(* number of line items.                                                   *)
C1_EveryLineItemInOneBucket ==
  (Normalized /\ NoErrorIndicator) =>
    /\ \A b \in BucketNames : Len(Statement(b)) = CountFor(b)
    /\ Len(Statement("balance_sheet")) + Len(Statement("income_statement"))
         + Len(Statement("cash_flow")) = Len(RawLineItems)

(* the items of a bucket the extractor's chain assigns to metric m *)
AssignedTo(bucket, chain(_), m) ==
  {i \in 1..Len(Statement(bucket)) : chain(Statement(bucket)[i].account_name.v) = m}

First(S) == CHOOSE i \in S : \A j \in S : i <= j

(* C2: every resolved metric holds the {current, previous} pair of the *)
(* first line item, in source order, that matches it.                  *)
C2_FirstMatchWins ==
  Extracted =>
    /\ \A m \in DOMAIN key_metrics.metrics.balance_sheet :
         key_metrics.metrics.balance_sheet[m]
           = Pair(Statement("balance_sheet")[First(AssignedTo("balance_sheet", BSMetricOf, m))])
    /\ \A m \in DOMAIN key_metrics.metrics.income_statement :
         key_metrics.metrics.income_statement[m]
           = Pair(Statement("income_statement")[First(AssignedTo("income_statement", ISMetricOf, m))])

(* the label substrings of each metric, in the order the extractor tests them *)
BSOrder ==
  <<"total_assets", "total_equity", "total_liabilities", "current_assets", "current_liabilities">>
ISOrder == <<"revenue", "operating_income", "net_income", "gross_profit">>

LabelsOf(m) ==
  CASE m = "total_assets" -> {S_total_assets, S_total_assets_sp}
    [] m = "total_equity" -> {S_total_equity, S_total_equity_sp}
    [] m = "total_liabilities" -> {S_total_liabilities, S_total_liabilities_sp}
    [] m = "current_assets" -> {S_current_assets}
    [] m = "current_liabilities" -> {S_current_liabilities}
    [] m = "revenue" -> {S_revenue, S_revenue_paren}
    [] m = "operating_income" -> {S_operating_income}
    [] m = "net_income" -> {S_net_income}
    [] m = "gross_profit" -> {S_gross_profit}

HasLabelOf(name, m) == \E l \in LabelsOf(m) : Contains(name, l)

(* some line item of the bucket carries a label of the k-th metric of order *)
SomeLabel(bucket, order, k) ==
  \E i \in 1..Len(Statement(bucket)) :
    HasLabelOf(Statement(bucket)[i].account_name.v, order[k])

(* ... and no label of a metric tested before it *)
SomeLabelNotEarlier(bucket, order, k) ==
  \E i \in 1..Len(Statement(bucket)) :
    /\ HasLabelOf(Statement(bucket)[i].account_name.v, order[k])
    /\ \A e \in 1..(k - 1) : ~HasLabelOf(Statement(bucket)[i].account_name.v, order[e])

(* C3 as stated: a metric is present exactly when some line item of its *)
(* statement contains one of its label substrings, whatever else the    *)
(* label contains.                                                      *)
C3_PresentIffSubstring ==
  Extracted =>
    /\ \A k \in 1..Len(BSOrder) :
         BSOrder[k] \in DOMAIN key_metrics.metrics.balance_sheet
           <=> SomeLabel("balance_sheet", BSOrder, k)
    /\ \A k \in 1..Len(ISOrder) :
         ISOrder[k] \in DOMAIN key_metrics.metrics.income_statement
           <=> SomeLabel("income_statement", ISOrder, k)

(* C3 (amended): a metric is present exactly when some line item of its    *)
(* statement contains one of its label substrings and none of the label    *)
(* substrings of the metrics tested before it in the if/elif chain.        *)
C3_PresentIffFirstInChain ==
  Extracted =>
    /\ \A k \in 1..Len(BSOrder) :
         BSOrder[k] \in DOMAIN key_metrics.metrics.balance_sheet
           <=> SomeLabelNotEarlier("balance_sheet", BSOrder, k)
    /\ \A k \in 1..Len(ISOrder) :
         ISOrder[k] \in DOMAIN key_metrics.metrics.income_statement
           <=> SomeLabelNotEarlier("income_statement", ISOrder, k)

(* a label with the substrings of two metrics resolved the earlier one only *)
C3_Witness ==
  /\ Extracted
  /\ \E i \in 1..Len(Statement("balance_sheet")) :
       Statement("balance_sheet")[i].account_name = JStr(N_current_assets_total)
  /\ "total_assets" \in DOMAIN key_metrics.metrics.balance_sheet
  /\ "current_assets" \notin DOMAIN key_metrics.metrics.balance_sheet

Resolved(statement, m) == m \in DOMAIN key_metrics.metrics[statement]
Current(statement, m) == key_metrics.metrics[statement][m].current
Previous(statement, m) == key_metrics.metrics[statement][m].previous
RatioPresent(r) == r \in DOMAIN key_metrics.metrics.ratios
RatioOf(r) == key_metrics.metrics.ratios[r]

(* both inputs resolved and the denominator not zero *)
Computable(ns, n, ds, d) ==
  Resolved(ns, n) /\ Resolved(ds, d) /\ Current(ds, d) # Float(0)

GrowthComputable ==
  Resolved("income_statement", "revenue") /\ Previous("income_statement", "revenue") # Float(0)

(* C4: each of the five ratios is present exactly when both of its inputs *)
(* are resolved and its denominator is not zero.                          *)
C4_RatioPresence ==
  Extracted =>
    /\ RatioPresent("debt_to_equity_ratio")
         <=> Computable("balance_sheet", "total_liabilities", "balance_sheet", "total_equity")
    /\ RatioPresent("equity_ratio")
         <=> Computable("balance_sheet", "total_equity", "balance_sheet", "total_assets")
    /\ RatioPresent("current_ratio")
         <=> Computable("balance_sheet", "current_assets", "balance_sheet", "current_liabilities")
    /\ RatioPresent("roe")
         <=> Computable("income_statement", "net_income", "balance_sheet", "total_equity")
    /\ RatioPresent("revenue_growth_rate") <=> GrowthComputable
    /\ DOMAIN key_metrics.metrics.ratios
         \subseteq {"debt_to_equity_ratio", "equity_ratio", "current_ratio", "roe",
                    "revenue_growth_rate"}

(* a ratio omitted for its zero denominator next to one that is computed *)
C4_Witness ==
  /\ Extracted
  /\ Resolved("balance_sheet", "total_liabilities")
  /\ Resolved("balance_sheet", "total_equity")
  /\ Current("balance_sheet", "total_equity") = Float(0)
  /\ ~RatioPresent("debt_to_equity_ratio")
  /\ RatioPresent("equity_ratio")

ZeroEquity ==
  Extracted /\ Resolved("balance_sheet", "total_equity")
    /\ Current("balance_sheet", "total_equity") = Float(0)

(* C5 as stated: with a resolved total_equity of 0 both equity_ratio and *)
(* debt_to_equity_ratio are absent and the other computable ratios are   *)
(* present.                                                              *)
C5_ZeroEquityOmitsBoth ==
  ZeroEquity =>
    /\ ~RatioPresent("equity_ratio")
    /\ ~RatioPresent("debt_to_equity_ratio")
    /\ Computable("balance_sheet", "current_assets", "balance_sheet", "current_liabilities")
         => RatioPresent("current_ratio")
    /\ GrowthComputable => RatioPresent("revenue_growth_rate")

(* C5 (amended): with a resolved total_equity of 0 debt_to_equity_ratio is *)
(* absent, equity_ratio (denominator total_assets) is present with value   *)
(* 0.0 whenever total_assets is resolved and not zero, and the other       *)
(* computable ratios are present.                                          *)
C5_ZeroEquityOmitsDebtRatio ==
  ZeroEquity =>
    /\ ~RatioPresent("debt_to_equity_ratio")
    /\ (Resolved("balance_sheet", "total_assets")
          /\ Current("balance_sheet", "total_assets") # Float(0))
         => (RatioPresent("equity_ratio") /\ RatioOf("equity_ratio") = RatioValue(0))
    /\ Computable("balance_sheet", "current_assets", "balance_sheet", "current_liabilities")
         => RatioPresent("current_ratio")
    /\ GrowthComputable => RatioPresent("revenue_growth_rate")

(* zero equity, total assets and total liabilities resolved: equity_ratio *)
(* is there, the debt ratio is not                                        *)
C5_Witness ==
  /\ ZeroEquity
  /\ Resolved("balance_sheet", "total_liabilities")
  /\ Resolved("balance_sheet", "total_assets")
  /\ Current("balance_sheet", "total_assets") # Float(0)
  /\ RatioPresent("equity_ratio")

(* C6: for a raw response without an error indicator the result has all *)
(* three buckets and a populated summary, every line item placed and no *)
(* error mark.                                                          *)
C6_AlwaysComplete ==
  (Normalized /\ NoErrorIndicator) =>
    /\ DOMAIN formatted_data.f = {"company_info", "financial_statements", "summary"}
    /\ DOMAIN formatted_data.f.financial_statements = BucketNames
    /\ DOMAIN formatted_data.f.summary = SummaryNames
    /\ Len(Statement("balance_sheet")) + Len(Statement("income_statement"))
         + Len(Statement("cash_flow")) = Len(RawLineItems)

(* C7: a raw response with an error indicator is returned as it is. *)
C7_ErrorReturnedUnchanged ==
  (Normalized /\ ~NoErrorIndicator) => formatted_data = raw_data

(* an error response that also carries a line item *)
C7_Witness ==
  /\ pc = "formatted"
  /\ ~NoErrorIndicator
  /\ Len(RawLineItems) = 1
  /\ formatted_data = raw_data

(* what a ratio value must be: num / den * 100 to the nearest hundredth *)
NearestHundredth(r, num, den) ==
  /\ ~r.nan
  /\ 2 * Abs(r.cents * den.v - 10000 * num.v) <= Abs(den.v)

ScenarioList ==
  <<Line(S_total_assets, "BS", Amounts.n1000000, Amounts.n900000), Line(S_revenue, "IS", Amounts.n500000, Amounts.n400000)>>

(* C9: every ratio present equals its formula on the resolved values,   *)
(* rounded to 2 decimals; the response with revenue "500,000" current   *)
(* and "400,000" previous normalises to one balance-sheet and one       *)
(* income-statement entry and has revenue_growth_rate 25.0.             *)
C9_RatioValues ==
  Extracted =>
    /\ RatioPresent("debt_to_equity_ratio") =>
         NearestHundredth(RatioOf("debt_to_equity_ratio"),
           Current("balance_sheet", "total_liabilities"), Current("balance_sheet", "total_equity"))
    /\ RatioPresent("equity_ratio") =>
         NearestHundredth(RatioOf("equity_ratio"),
           Current("balance_sheet", "total_equity"), Current("balance_sheet", "total_assets"))
    /\ RatioPresent("current_ratio") =>
         NearestHundredth(RatioOf("current_ratio"),
           Current("balance_sheet", "current_assets"),
           Current("balance_sheet", "current_liabilities"))
    /\ RatioPresent("roe") =>
         NearestHundredth(RatioOf("roe"),
           Current("income_statement", "net_income"), Current("balance_sheet", "total_equity"))
    /\ RatioPresent("revenue_growth_rate") =>
         NearestHundredth(RatioOf("revenue_growth_rate"),
           Float(Current("income_statement", "revenue").v
                   - Previous("income_statement", "revenue").v),
           Previous("income_statement", "revenue"))
    /\ RawLineItems = ScenarioList =>
         /\ Len(Statement("balance_sheet")) = 1
         /\ Len(Statement("income_statement")) = 1
         /\ RatioPresent("revenue_growth_rate")
         /\ RatioOf("revenue_growth_rate") = RatioValue(2500)

(* the end-to-end scenario has run *)
C9_Witness ==
  /\ Extracted
  /\ RawLineItems = ScenarioList
  /\ RatioOf("revenue_growth_rate") = RatioValue(2500)

(* C10: extraction returns a KeyMetrics with its three mappings for every *)
(* canonical structure.                                                   *)
C10_ExtractionNeverFails ==
  pc = "extracted" =>
    /\ ~key_metrics.raised
    /\ DOMAIN key_metrics.metrics = {"balance_sheet", "income_statement", "ratios"}

----------------------------------------------------------------------------
(* Properties of the amount coercion *)

ItemDone == pc = "item_done"
HasAmount == "thstrm_amount" \in DOMAIN line_item.f

(* digits and thousands separators, at least one digit *)
SeparatedDigits(a) ==
  /\ \A i \in 1..Len(a) : a[i] \in Digits \cup {","}
  /\ \E i \in 1..Len(a) : a[i] \in Digits

(* no digit at all, or a character that is no digit, separator or sign *)
NonNumeric(a) ==
  \/ \A i \in 1..Len(a) : a[i] \notin Digits
  \/ \E i \in 1..Len(a) : a[i] \notin Digits \cup {",", "-"}

(* C8: the coerced amount is a well-formed number; a digit string with   *)
(* thousands separators gives its value, an absent, null, empty or       *)
(* non-numeric value gives 0.0; the other fields of the line item are    *)
(* what they are without the failing field.                              *)
C8_AmountCoercion ==
  ItemDone =>
    /\ line_account.current_amount.t = "float"
    /\ ~line_account.current_amount.nan
    /\ (HasAmount /\ IsStr(line_item.f.thstrm_amount)
          /\ SeparatedDigits(line_item.f.thstrm_amount.v))
         => line_account.current_amount
              = Float(DecimalValue(Remove(line_item.f.thstrm_amount.v, ",")))
    /\ (~HasAmount \/ line_item.f.thstrm_amount = JNull
          \/ (IsStr(line_item.f.thstrm_amount) /\ NonNumeric(line_item.f.thstrm_amount.v)))
         => line_account.current_amount = Float(0)
    /\ line_account.previous_amount = Float(1234)
    /\ line_account.account_name = JStr(S_revenue)
    /\ line_account.statement_type = JStr(<<"IS">>)

----------------------------------------------------------------------------
(* Company metadata *)

(* the value the first line item gives to a metadata field: its own, or '' *)
(* when it has none                                                        *)
MetadataOf(first_item, k) ==
  IF IsDict(first_item) /\ k \in DOMAIN first_item.f THEN first_item.f[k] ELSE JStr(<<>>)

(* C20: the company metadata of a normalized response is the stock code,  *)
(* report date and report type of its first line item, each the empty     *)
(* string when the item has no such field; a response with no line items  *)
(* is normalized without an error mark.                                   *)
C20_MetadataFromFirstItem ==
  (Normalized /\ NoErrorIndicator) =>
    /\ "company_info" \in DOMAIN formatted_data.f
    /\ RawLineItems # <<>> =>
         formatted_data.f.company_info =
           [stock_code |-> MetadataOf(RawLineItems[1], "stock_code"),
            report_date |-> MetadataOf(RawLineItems[1], "thstrm_dt"),
            report_type |-> MetadataOf(RawLineItems[1], "reprt_code")]
    /\ RawLineItems = <<>> => "error" \notin DOMAIN formatted_data.f

----------------------------------------------------------------------------
(* Consolidated and separate statements *)

FsTypes == {"CFS", "OFS"}

(* the accounts the response lists for the statement fs *)
AccountsOf(fs) ==
  { RawLineItems[i].f.account_nm : i \in
      {j \in 1..Len(RawLineItems) :
         /\ IsDict(RawLineItems[j])
         /\ Get(RawLineItems[j], "fs_div", JNull) = JStr(<<fs>>)} }

(* the response lists the same accounts for both statements *)
BothStatementsListed ==
  AccountsOf("CFS") # {} /\ AccountsOf("CFS") = AccountsOf("OFS")

(* the value of metric m is that of a line item of the statement fs *)
DrawnFrom(statement, m, fs) ==
  \E i \in 1..Len(Statement(statement)) :
    /\ Statement(statement)[i].fs_type = JStr(<<fs>>)
    /\ HasLabelOf(Statement(statement)[i].account_name.v, m)
    /\ Pair(Statement(statement)[i]) = key_metrics.metrics[statement][m]

(* C22: when the response lists the same accounts for the consolidated *)
(* and the separate statement, all metrics of the result are values of *)
(* line items of one of the two statements.                            *)
C22_MetricsFromOneStatement ==
  (Extracted /\ BothStatementsListed) =>
    \E fs \in FsTypes :
      \A statement \in {"balance_sheet", "income_statement"} :
        \A m \in DOMAIN key_metrics.metrics[statement] : DrawnFrom(statement, m, fs)

----------------------------------------------------------------------------
(* Summary and key metrics *)

(* the statement of KeyMetrics that holds the metric m of the summary *)
StatementOf(m) ==
  IF m \in {"revenue", "net_income"} THEN "income_statement" ELSE "balance_sheet"

(* C26: whenever the key metrics resolve total_assets, total_liabilities, *)
(* total_equity, revenue or net_income, the summary of the normalized     *)
(* statement has the metric's current value under the same name.          *)
C26_SummaryAgreesWithMetrics ==
  (Extracted /\ NoErrorIndicator) =>
    \A m \in SummaryNames :
      Resolved(StatementOf(m), m) =>
        /\ m \in DOMAIN formatted_data.f.summary
        /\ formatted_data.f.summary[m] = Current(StatementOf(m), m)

----------------------------------------------------------------------------
(* The company registry: create_database.py loads the record file into the *)
(* table 'companies' of corpcode.db                                        *)

(* Bound of the registry model: the records of a feed. *)
MaxFeedLen == 2

RECURSIVE Strip(_)
(* str.strip(): the blanks at both ends removed *)
Strip(s) ==
  IF s # <<>> /\ Head(s) = " " THEN Strip(Tail(s))
  ELSE IF s # <<>> /\ s[Len(s)] = " " THEN Strip(SubSeq(s, 1, Len(s) - 1))
  ELSE s

(* the five values bound to the INSERT; .strip() of a stock_code that is *)
(* None raises AttributeError before the statement runs                 *)
InsertValues(company) ==
  LET stock == Get(company, "stock_code", JStr(<<>>))
  IN  IF ~IsStr(stock) THEN [raised |-> TRUE]
      ELSE [raised |-> FALSE,
            row |-> [corp_code |-> Get(company, "corp_code", JStr(<<>>)),
                     corp_name |-> Get(company, "corp_name", JStr(<<>>)),
                     corp_eng_name |-> Get(company, "corp_eng_name", JStr(<<>>)),
                     stock_code |-> JStr(Strip(stock.v)),
                     modify_date |-> Get(company, "modify_date", JStr(<<>>))]]

(* a table without the UNIQUE constraint on corp_code *)
NeverConflicts(stored, row) == FALSE

(* the UNIQUE constraint on corp_code: the stored row a new row conflicts with *)
Conflicts(stored, row) == stored.corp_code = row.corp_code

(* INSERT OR IGNORE: a row with a stored corp_code is dropped *)
InsertOrIgnore(table, counter, row, now) ==
  IF \/ row.corp_code = JNull \/ row.corp_name = JNull
     \/ \E i \in 1..Len(table) : Conflicts(table[i], row)
    THEN [table |-> table, autoinc |-> counter]
  ELSE [table |-> Append(table, row @@ [id |-> counter + 1, created_at |-> now]),
        autoinc |-> counter + 1]

(* INSERT OR REPLACE INTO companies: a NULL in corp_code or corp_name, both *)
(* NOT NULL, aborts the statement (the except of line 74 then skips the     *)
(* record); otherwise the                                                   *)
(* conflicting row is deleted and the new row is inserted under a fresh id *)
(* with the default created_at.  The table is kept in rowid order.         *)
InsertOrReplace(table, counter, row, now) ==
  IF row.corp_code = JNull \/ row.corp_name = JNull
    THEN [table |-> table, autoinc |-> counter]
  ELSE [table |-> Append(SelectSeq(table, LAMBDA stored : ~Conflicts(stored, row)),
                         row @@ [id |-> counter + 1, created_at |-> now]),
        autoinc |-> counter + 1]

RECURSIVE LoadAll(_, _, _, _, _)
(* the loop of lines 60-75 over the records from index i on *)
LoadAll(table, counter, records, i, now) ==
  IF i > Len(records) THEN [table |-> table, autoinc |-> counter]
  ELSE LET values == InsertValues(records[i])
           after == IF values.raised THEN [table |-> table, autoinc |-> counter]
                    ELSE InsertOrReplace(table, counter, values.row, now)
       IN  LoadAll(after.table, after.autoinc, records, i + 1, now)

(* a create_database that empties the table before it loads the feed *)
create_database_rebuilding(table, counter, data, now) ==
  LoadAll(<<>>, counter, Get(data, "list", JArr(<<>>)).v, 1, now)

(* create_database on the record file 'data': the records are *)
(* data.get('list', [])                                       *)
create_database(table, counter, data, now) ==
  LoadAll(table, counter, Get(data, "list", JArr(<<>>)).v, 1, now)

(* Inputs: corp codes, names and the records of the feeds *)
Codes == <<<<"0", "0", "1">>, <<"0", "0", "2">>>>
Names == [a |-> <<"sam", "seong">>, b |-> <<"sam", "seong", "jeon", "ja">>, c |-> <<"L", "G">>]

FeedRecords ==
  { JObj([corp_code |-> JStr(Codes[1]), corp_name |-> JStr(Names.a),
          corp_eng_name |-> JStr(<<"S">>), stock_code |-> JStr(<<" ", "5", " ">>),
          modify_date |-> JStr(<<"d", "1">>)]),
    JObj([corp_code |-> JStr(Codes[1]), corp_name |-> JStr(Names.b)]),
    JObj([corp_code |-> JStr(Codes[2]), corp_name |-> JStr(Names.a),
          corp_eng_name |-> JNull, stock_code |-> JStr(<<" ">>), modify_date |-> JNull]),
    JObj([corp_code |-> JStr(Codes[1]), corp_name |-> JNull]),
    JObj([corp_code |-> JStr(Codes[2]), corp_name |-> JStr(Names.c), stock_code |-> JNull]),
    JObj([corp_name |-> JStr(Names.c), stock_code |-> JStr(<<"7">>)]),
    JObj([corp_code |-> JNull, corp_name |-> JStr(Names.b)]) }

(* a record file holding the records l *)
RecordFile(l) == JObj([result |-> JArr(<<>>), list |-> JArr(l)])

InitStore ==
  /\ pc = "store"
  /\ companies = <<>>
  /\ autoinc = 0
  /\ feed_log = <<>>
  /\ before = <<>>
  /\ query = NoValue
  /\ results = NoValue
  /\ OthersUnused("store")

(* one run of create_database.py on the latest record file: the first load *)
(* into the new table, then the load of the next feed                      *)
CreateDatabase ==
  /\ pc \in {"store", "loaded"}
  /\ \E data \in {JObj([result |-> JArr(<<>>)])}
                   \cup UNION {{RecordFile(l) : l \in [1..n -> FeedRecords]} : n \in 0..MaxFeedLen} :
       LET run == create_database(companies, autoinc, data, Len(feed_log) + 1)
       IN  /\ companies' = run.table
           /\ autoinc' = run.autoinc
           /\ feed_log' = Append(feed_log, data)
           /\ before' = companies
  /\ pc' = IF pc = "store" THEN "loaded" ELSE "reloaded"
  /\ UNCHANGED <<query, results, pipeVars, parserVars, serviceVars>>

NextStore == CreateDatabase

SpecStore == InitStore /\ [][NextStore]_vars

----------------------------------------------------------------------------
(* Company search: /api/search_company of app.py and search_company of *)
(* create_database.py                                                  *)

(* Bound of the search model: the rows loaded besides the filler rows. *)
MaxRows == 2

(* LIMIT 20 of app.py and LIMIT 10 of create_database.py *)
SearchLimit == 20
TestSearchLimit == 10

(* the code point of a character; BINARY collation orders text by it *)
CodePoint(c) ==
  CASE c = " " -> 32 [] c = "%" -> 37 [] c \in Digits -> 48 + DigitVal(c)
    [] c = "G" -> 71 [] c = "L" -> 76 [] c = "_" -> 95
    [] c = "g" -> 103 [] c = "l" -> 108
    [] c = "sam" -> 49340 [] c = "seong" -> 49457
    [] c = "ja" -> 51088 [] c = "jeon" -> 51204

RECURSIVE TextLess(_, _)
(* s < t for two TEXT values *)
TextLess(s, t) ==
  IF t = <<>> THEN FALSE
  ELSE IF s = <<>> THEN TRUE
  ELSE IF Head(s) = Head(t) THEN TextLess(Tail(s), Tail(t))
  ELSE CodePoint(Head(s)) < CodePoint(Head(t))

RECURSIVE Like(_, _)
(* text LIKE pattern, without ESCAPE: '%' stands for any run of characters, *)
(* '_' for any one character; the case of ASCII letters is folded          *)
Like(text, pattern) ==
  LET upper(c) == CASE c = "g" -> "G" [] c = "l" -> "L" [] OTHER -> c
  IN  IF pattern = <<>> THEN text = <<>>
      ELSE IF Head(pattern) = "%"
        THEN Like(text, Tail(pattern)) \/ (text # <<>> /\ Like(Tail(text), pattern))
      ELSE IF text = <<>> THEN FALSE
      ELSE /\ Head(pattern) = "_" \/ upper(Head(pattern)) = upper(Head(text))
           /\ Like(Tail(text), Tail(pattern))

(* WHERE corp_name LIKE '%' || company_name || '%' *)
Matching(table, company_name) ==
  SelectSeq(table, LAMBDA stored : Like(stored.corp_name.v, <<"%">> \o company_name \o <<"%">>))

(* ORDER BY corp_name of create_database.py; rows with equal names come in *)
(* the order 'tie' (see Precedes)                                         *)
PrecedesByName(a, b, company_name, tie) ==
  \/ TextLess(a.corp_name.v, b.corp_name.v)
  \/ a.corp_name = b.corp_name /\ (IF tie = "asc" THEN a.id < b.id ELSE a.id > b.id)

(* the order of app.py without its second key *)
PrecedesIgnoringStock(a, b, company_name, tie) ==
  LET exact(r) == IF r.corp_name.v = company_name THEN 1 ELSE 0
  IN  \/ exact(a) > exact(b)
      \/ exact(a) = exact(b) /\ PrecedesByName(a, b, company_name, tie)

(* ORDER BY of app.py: exact name first, then rows with a stock code, then *)
(* corp_name.  SQL leaves the order of rows with equal keys open; 'tie'    *)
(* is the order the query plan gives them, by ascending or descending id.  *)
Precedes(a, b, company_name, tie) ==
  LET exact(r) == IF r.corp_name.v = company_name THEN 1 ELSE 0
      listed(r) == IF r.stock_code # JNull /\ r.stock_code.v # <<>> THEN 1 ELSE 0
  IN  \/ exact(a) > exact(b)
      \/ exact(a) = exact(b) /\ listed(a) > listed(b)
      \/ exact(a) = exact(b) /\ listed(a) = listed(b)
           /\ PrecedesByName(a, b, company_name, tie)

RECURSIVE Sorted(_, _, _, _, _)
(* the rows of 'rows' from index i on, put in the order of the search: *)
(* "rank" in app.py, "name" in create_database.py                     *)
Sorted(rows, order, company_name, tie, i) ==
  IF i > Len(rows) THEN <<>>
  ELSE LET rest == Sorted(rows, order, company_name, tie, i + 1)
           ahead(a, b) == IF order = "rank" THEN Precedes(a, b, company_name, tie)
                          ELSE PrecedesByName(a, b, company_name, tie)
           p == Cardinality({j \in 1..Len(rest) : ahead(rest[j], rows[i])})
       IN  SubSeq(rest, 1, p) \o <<rows[i]>> \o SubSeq(rest, p + 1, Len(rest))

(* LIMIT: the first 'limit' rows, in the four columns of the SELECT *)
Selected(rows, limit) ==
  [k \in 1..(IF Len(rows) <= limit THEN Len(rows) ELSE limit) |->
     [corp_name |-> rows[k].corp_name, corp_code |-> rows[k].corp_code,
      stock_code |-> rows[k].stock_code, corp_eng_name |-> rows[k].corp_eng_name]]

(* search_company of app.py for the parameter q *)
search_company(table, q, tie) ==
  LET company_name == Strip(q)
  IN  IF company_name = <<>> THEN [error |-> "company name required"]
      ELSE LET rows == Selected(Sorted(Matching(table, company_name), "rank",
                                       company_name, tie, 1), SearchLimit)
           IN  [success |-> TRUE, results |-> rows, count |-> Len(rows)]

(* search_company of create_database.py: no strip, ORDER BY corp_name, LIMIT 10 *)
cli_search_company(table, company_name, tie) ==
  Selected(Sorted(Matching(table, company_name), "name", company_name, tie, 1),
           TestSearchLimit)

(* Inputs: the registry is what create_database leaves after loading up to *)
(* MaxRows records followed by no or SearchLimit filler records            *)
DigitChar(n) == CHOOSE c \in Digits : DigitVal(c) = n

FillerRecord(i) ==
  JObj([corp_code |-> JStr(<<"9", DigitChar(i \div 10), DigitChar(i % 10)>>),
        corp_name |-> JStr(Names.a \o <<DigitChar(i \div 10), DigitChar(i % 10)>>),
        stock_code |-> JStr(IF i % 2 = 0 THEN <<"7">> ELSE <<" ">>)])

Queries ==
  { <<>>, <<" ">>, Names.a, <<" ">> \o Names.a \o <<" ">>, Names.b, <<"seong">>,
    <<"l", "g">>, <<"%">>, <<"_">> }

InitSearch ==
  /\ pc = "search"
  /\ \E n \in 0..MaxRows : \E fill \in {0, SearchLimit} :
       \E names \in [1..n -> {Names.a, Names.b, Names.c}] :
         \E stocks \in [1..n -> {<<>>, <<"5">>}] :
         LET records == [i \in 1..(n + fill) |->
                           IF i <= n THEN JObj([corp_code |-> JStr(<<"0", "0", DigitChar(i)>>),
                                                corp_name |-> JStr(names[i]),
                                                stock_code |-> JStr(stocks[i])])
                           ELSE FillerRecord(i - n)]
             run == create_database(<<>>, 0, RecordFile(records), 1)
         IN  /\ companies = run.table
             /\ autoinc = run.autoinc
             /\ feed_log = <<RecordFile(records)>>
  /\ before = <<>>
  /\ query = NoValue
  /\ results = NoValue
  /\ OthersUnused("store")

(* GET /api/search_company?q=... *)
SearchCompany ==
  /\ pc = "search"
  /\ \E q \in Queries : \E tie \in {"asc", "desc"} :
       /\ query' = q
       /\ results' = search_company(companies, q, tie)
  /\ pc' = "searched"
  /\ UNCHANGED <<companies, autoinc, feed_log, before, pipeVars, parserVars, serviceVars>>

(* the test search of create_database.py *)
CliSearchCompany ==
  /\ pc = "search"
  /\ \E q \in Queries : \E tie \in {"asc", "desc"} :
       /\ query' = q
       /\ results' = cli_search_company(companies, q, tie)
  /\ pc' = "cli_searched"
  /\ UNCHANGED <<companies, autoinc, feed_log, before, pipeVars, parserVars, serviceVars>>

NextSearch == SearchCompany \/ CliSearchCompany

SpecSearch == InitSearch /\ [][NextSearch]_vars

----------------------------------------------------------------------------
(* The bulk-feed converters: _extract_and_convert_to_json and _xml_to_json *)
(* of opendart_downloader.py, and convert_xml_to_json.py                   *)

(* Bound of the converter model: the entity elements of a feed. *)
MaxEntities == 3

(* an element: its tag, its text (None when it has none) and its children *)
Element(tag, text, kids) == [tag |-> tag, text |-> text, kids |-> kids]

(* a document ET.parse rejects, and an archive or directory without the XML *)
Malformed == [t |-> "malformed"]
NoXml == [t |-> "noxml"]

IsTree(doc) == doc # Malformed /\ doc # NoXml

(* node.findall(tag): the children with that tag, in order *)
FindAll(node, tag) == SelectSeq(node.kids, LAMBDA kid : kid.tag = tag)

RECURSIVE Descendants(_, _)
(* the elements below kids[i..], in document order *)
Descendants(kids, i) ==
  IF i > Len(kids) THEN <<>>
  ELSE <<kids[i]>> \o Descendants(kids[i].kids, 1) \o Descendants(kids, i + 1)

(* root.findall('.//list') *)
FindAllBelow(root, tag) == SelectSeq(Descendants(root.kids, 1), LAMBDA node : node.tag = tag)

RECURSIVE ItemData(_, _)
(* item_data[child.tag] = child.text for the children from index i on *)
ItemData(kids, i) ==
  IF i > Len(kids) THEN EmptyDict
  ELSE ItemData(kids, i + 1) @@ (kids[i].tag :> kids[i].text)

(* one item_data per element of 'items' *)
ItemList(items) == JArr([k \in 1..Len(items) |-> JObj(ItemData(items[k].kids, 1))])

(* OpenDartDownloader._xml_to_json: None when parsing raises *)
xml_to_json(doc) ==
  IF ~IsTree(doc) THEN JNull
  ELSE LET result_elems == FindAll(doc, "result")
           result == IF result_elems # <<>> THEN ItemData(result_elems[1].kids, 1)
                     ELSE EmptyDict
           list_elems == FindAll(doc, "list")
           items == IF list_elems # <<>> THEN FindAll(list_elems[1], "list") ELSE <<>>
           chosen == IF items # <<>> THEN items ELSE FindAllBelow(doc, "list")
       IN  JObj([result |-> JObj(result), list |-> ItemList(chosen)])

(* _extract_and_convert_to_json from the XML file on: the value returned *)
(* and the record file written                                           *)
extract_and_convert_to_json(doc) ==
  IF doc = NoXml THEN [ok |-> FALSE, file |-> NoValue]
  ELSE LET json_data == xml_to_json(doc)
       IN  IF Truthy(json_data) THEN [ok |-> TRUE, file |-> json_data]
           ELSE [ok |-> FALSE, file |-> NoValue]

(* convert_xml_to_json of convert_xml_to_json.py *)
convert_xml_to_json(doc) ==
  IF ~IsTree(doc) THEN [ok |-> FALSE, file |-> NoValue]
  ELSE LET items == FindAllBelow(doc, "list")
       IN  IF items = <<>> THEN [ok |-> FALSE, file |-> NoValue]
           ELSE [ok |-> TRUE,
                 file |-> JObj([result |-> JArr(<<>>), list |-> ItemList(items)])]

(* Inputs: entity elements, and the feeds built from them *)
EntityNodes ==
  { Element("list", JNull,
            <<Element("corp_code", JStr(Codes[1]), <<>>),
              Element("corp_name", JStr(Names.a), <<>>)>>),
    Element("list", JNull,
            <<Element("corp_code", JStr(Codes[2]), <<>>),
              Element("corp_name", JStr(Names.b), <<>>),
              Element("stock_code", JStr(<<" ">>), <<>>),
              Element("modify_date", JNull, <<>>)>>),
    Element("list", JNull,
            <<Element("corp_name", JStr(Names.c), <<>>),
              Element("stock_code", JStr(<<"7">>), <<>>)>>) }

(* a feed: after the status element, if it has one, the entities directly *)
(* under the root or under one 'list' wrapper                             *)
Feed(shape, status, entities) ==
  Element("result", JNull,
          (IF status
             THEN <<Element("result", JNull, <<Element("status", JStr(<<"000">>), <<>>),
                                               Element("message", JNull, <<>>)>>)>>
           ELSE <<>>)
          \o (IF shape = "flat" THEN entities ELSE <<Element("list", JNull, entities)>>))

InitParser ==
  /\ pc = "feed"
  /\ \/ xml_file \in {Malformed, NoXml}
     \/ \E shape \in {"flat", "wrapped"} : \E status \in BOOLEAN :
          \E n \in 0..MaxEntities : \E l \in [1..n -> EntityNodes] :
            xml_file = Feed(shape, status, l)
  /\ json_file = NoValue
  /\ converted = NoValue
  /\ OthersUnused("parser")

(* the conversion step of the downloader *)
ExtractAndConvertToJson ==
  /\ pc = "feed"
  /\ LET run == extract_and_convert_to_json(xml_file)
     IN  converted' = run.ok /\ json_file' = run.file
  /\ pc' = "downloader_done"
  /\ UNCHANGED <<xml_file, pipeVars, storeVars, serviceVars>>

(* the stand-alone converter *)
ConvertXmlToJson ==
  /\ pc = "feed"
  /\ LET run == convert_xml_to_json(xml_file)
     IN  converted' = run.ok /\ json_file' = run.file
  /\ pc' = "converter_done"
  /\ UNCHANGED <<xml_file, pipeVars, storeVars, serviceVars>>

NextParser == ExtractAndConvertToJson \/ ConvertXmlToJson

SpecParser == InitParser /\ [][NextParser]_vars

----------------------------------------------------------------------------
(* The calls to the statement service (opendart_service.py) and to the     *)
(* narrative generator (gemini_service.py), and the two endpoints of       *)
(* app.py that use them.  A call runs in an environment 'env': the request *)
(* parameters, the services that were constructed, and what each external  *)
(* service answers to the request of the call.  The fixed texts of the     *)
(* messages are one token each.                                            *)

(* str(x) of a value put into an f-string *)
PyStr(x) ==
  CASE x.t = "str" -> x.v
    [] x.t = "null" -> <<"None">>
    [] x.t = "num" -> <<x.v>>

(* replies of a service: an HTTP response, or the exception requests raises *)
HttpReply(code, body) == [kind |-> "http", code |-> code, body |-> body]
TimeoutReply == [kind |-> "timeout", text |-> <<"read timed out">>]
ConnectionReply == [kind |-> "exception", text |-> <<"connection refused">>]

(* a body response.json() cannot decode *)
NotJson == [t |-> "text", v |-> <<"<html>">>]

(* the result for a response whose status is not '000' without its message *)
StatementErrorGeneric(data) == JObj([error |-> JStr(<<"unknown error">>)])

(* lines 82-85: the result for a response whose status is not '000' *)
StatementError(data) == JObj([error |-> Get(data, "message", JStr(<<"unknown error">>))])

(* lines 74-92 of get_financial_statement for the reply to its request *)
StatementResult(reply) ==
  IF reply.kind # "http" THEN JObj([error |-> JStr(reply.text)])
  ELSE IF reply.code # 200 THEN JObj([error |-> JStr(<<"HTTP ">> \o <<reply.code>>)])
  ELSE IF ~IsDict(reply.body) THEN JObj([error |-> JStr(<<"Expecting value">>)])
  ELSE IF Get(reply.body, "status", JNull) = JStr(<<"000">>) THEN reply.body
  ELSE StatementError(reply.body)

(* a get_financial_statement that asks again after a failure, and is then *)
(* answered with success                                                 *)
get_financial_statement_retrying(env) ==
  IF "error" \in DOMAIN StatementResult(env.dart).f
    THEN [requests |-> 2, result |-> StatementResult(HttpReply(200, Response(<<>>)))]
  ELSE [requests |-> 1, result |-> StatementResult(env.dart)]

(* OpenDartService.get_financial_statement: one requests.get *)
get_financial_statement(env) ==
  [requests |-> 1, result |-> StatementResult(env.dart)]

GeminiFailure(text) == [success |-> FALSE, error |-> JStr(text)]

(* lines 236-275 of _call_gemini_api for the reply to its request *)
GeminiResult(reply) ==
  IF reply.kind = "timeout" THEN GeminiFailure(<<"AI analysis request timed out (60s)">>)
  ELSE IF reply.kind = "exception" THEN GeminiFailure(<<"error during AI analysis: ">> \o reply.text)
  ELSE IF reply.code # 200
    THEN GeminiFailure(<<"API request failed: ">> \o <<reply.code, " - ">> \o PyStr(reply.body))
  ELSE IF ~IsDict(reply.body) THEN GeminiFailure(<<"error during AI analysis: ">> \o <<"Expecting value">>)
  ELSE IF "candidates" \in DOMAIN reply.body.f /\ Len(reply.body.f.candidates.v) > 0
    THEN LET candidate == reply.body.f.candidates.v[1]
         IN  IF "content" \notin DOMAIN candidate.f THEN GeminiFailure(<<"no content in AI response">>)
             ELSE IF "parts" \notin DOMAIN candidate.f.content.f
               THEN GeminiFailure(<<"error during AI analysis: ">> \o <<"'parts'">>)
             ELSE [success |-> TRUE, content |-> candidate.f.content.f.parts.v[1].f.text]
  ELSE GeminiFailure(<<"no candidates in AI response">>)

(* GeminiService._call_gemini_api: no request without a key, else one *)
(* requests.post carrying the prompt                                  *)
call_gemini_api(env, prompt) ==
  IF ~env.api_key
    THEN [requests |-> 0, posted |-> NoValue,
          result |-> GeminiFailure(<<"Gemini API key not set">>)]
  ELSE [requests |-> 1, posted |-> prompt, result |-> GeminiResult(env.gemini)]

(* _create_analysis_prompt: the company name and the metrics inside the *)
(* fixed instructions                                                   *)
create_analysis_prompt(company_name, metrics) ==
  [company_name |-> company_name, metrics |-> metrics]

(* GeminiService.analyze_financial_data *)
analyze_financial_data(company_name, financial_data, env) ==
  LET Analysis(metrics, call) ==
        [requests |-> call.requests, posted |-> call.posted,
         result |-> IF call.result.success
                      THEN [success |-> TRUE, analysis |-> call.result.content,
                            company_name |-> company_name, key_metrics |-> metrics]
                    ELSE GeminiFailure(call.result.error.v)]
      Analyze(extraction) ==
        IF extraction.raised
          THEN [requests |-> 0, posted |-> NoValue,
                result |-> GeminiFailure(<<"error while processing AI analysis: ">>
                                           \o <<"TypeError">>)]
        ELSE Analysis(extraction.metrics,
                      call_gemini_api(env, create_analysis_prompt(company_name,
                                                                  extraction.metrics)))
  IN  Analyze(analyze_key_metrics(financial_data))

NoRequests == [dart |-> 0, gemini |-> 0]

(* get_financial_data of app.py *)
get_financial_data(env) ==
  IF env.args # "complete"
    THEN [sent |-> NoRequests, response |-> JObj([error |-> JStr(<<"corp_code and year required">>)])]
  ELSE IF ~env.dart_service
    THEN [sent |-> NoRequests, response |-> JObj([error |-> JStr(<<"OpenDart service unavailable">>)])]
  ELSE LET Handle(call) ==
             [sent |-> [dart |-> call.requests, gemini |-> 0],
              response |-> IF "error" \in DOMAIN call.result.f
                             THEN JObj([error |-> call.result.f.error])
                           ELSE JObj([success |-> TRUE,
                                      data |-> format_financial_data(call.result)])]
       IN  Handle(get_financial_statement(env))

(* an ai_analysis that does not test the statement for 'error' *)
ai_analysis_unchecked(env) ==
  IF env.args = "no_code"
    THEN [sent |-> NoRequests, posted |-> NoValue,
          response |-> JObj([error |-> JStr(<<"corp_code and corp_name required">>)])]
  ELSE IF env.args = "no_year"
    THEN [sent |-> NoRequests, posted |-> NoValue,
          response |-> JObj([error |-> JStr(<<"year required">>)])]
  ELSE IF ~env.dart_service
    THEN [sent |-> NoRequests, posted |-> NoValue,
          response |-> JObj([error |-> JStr(<<"OpenDart service unavailable">>)])]
  ELSE LET Reply(call, analysis) ==
             [sent |-> [dart |-> call.requests, gemini |-> analysis.requests],
              posted |-> analysis.posted,
              response |-> IF analysis.result.success
                             THEN JObj([success |-> TRUE,
                                        analysis |-> analysis.result.analysis,
                                        company_name |-> env.corp_name,
                                        year |-> env.year,
                                        key_metrics |-> analysis.result.key_metrics])
                           ELSE JObj([error |-> analysis.result.error])]
           Handle(call) ==
             Reply(call, analyze_financial_data(env.corp_name,
                                                format_financial_data(call.result), env))
       IN  Handle(get_financial_statement(env))

(* ai_analysis of app.py *)
ai_analysis(env) ==
  IF env.args = "no_code"
    THEN [sent |-> NoRequests, posted |-> NoValue,
          response |-> JObj([error |-> JStr(<<"corp_code and corp_name required">>)])]
  ELSE IF env.args = "no_year"
    THEN [sent |-> NoRequests, posted |-> NoValue,
          response |-> JObj([error |-> JStr(<<"year required">>)])]
  ELSE IF ~env.dart_service
    THEN [sent |-> NoRequests, posted |-> NoValue,
          response |-> JObj([error |-> JStr(<<"OpenDart service unavailable">>)])]
  ELSE LET Reply(call, analysis) ==
             [sent |-> [dart |-> call.requests, gemini |-> analysis.requests],
              posted |-> analysis.posted,
              response |-> IF analysis.result.success
                             THEN JObj([success |-> TRUE,
                                        analysis |-> analysis.result.analysis,
                                        company_name |-> env.corp_name,
                                        year |-> env.year,
                                        key_metrics |-> analysis.result.key_metrics])
                           ELSE JObj([error |-> analysis.result.error])]
           Handle(call) ==
             IF "error" \in DOMAIN call.result.f
               THEN [sent |-> [dart |-> call.requests, gemini |-> 0], posted |-> NoValue,
                     response |-> JObj([error |-> JStr(<<"statement unavailable: ">>
                                                         \o PyStr(call.result.f.error))])]
             ELSE Reply(call, analyze_financial_data(env.corp_name,
                                                     format_financial_data(call.result), env))
       IN  Handle(get_financial_statement(env))

(* Inputs: the replies of the two services *)
DartReplies ==
  { HttpReply(200, Response(<<>>)),
    HttpReply(200, Response(<<Line(S_total_assets, "BS", Amounts.n1000000, Amounts.n900000),
                              Line(S_total_equity, "BS", Amounts.n800, Amounts.empty),
                              Line(S_revenue, "IS", Amounts.n500000, Amounts.n400000)>>)),
    HttpReply(200, Response(<<JObj([account_nm |-> JNull, sj_div |-> JStr(<<"BS">>),
                                    thstrm_amount |-> JStr(Amounts.n100)])>>)),
    HttpReply(200, JObj(Status000 @@ [list |-> JNull])),
    HttpReply(200, Response(<<Line(S_total_assets, "BS", Amounts.n1000000, Amounts.n900000),
                              JNull>>)),
    HttpReply(200, JObj([status |-> JStr(<<"013">>), message |-> ErrorMessage])),
    HttpReply(200, JObj([status |-> JStr(<<"020">>), message |-> JStr(<<>>)])),
    HttpReply(200, JObj([status |-> JStr(<<"013">>)])),
    HttpReply(200, JObj([status |-> JStr(<<"013">>), message |-> JNull])),
    HttpReply(200, JObj([message |-> ErrorMessage])),
    HttpReply(200, NotJson),
    HttpReply(500, NotJson),
    TimeoutReply,
    ConnectionReply }

GeminiReplies ==
  { HttpReply(200, JObj([candidates |-> JArr(<<JObj([content |-> JObj([parts |->
        JArr(<<JObj([text |-> JStr(<<"sound", " ", "finances">>)])>>)])])>>)])),
    HttpReply(200, JObj(EmptyDict)),
    HttpReply(200, JObj([candidates |-> JArr(<<>>)])),
    HttpReply(200, JObj([candidates |-> JArr(<<JObj(EmptyDict)>>)])),
    HttpReply(200, JObj([candidates |-> JArr(<<JObj([content |-> JObj(EmptyDict)])>>)])),
    HttpReply(200, NotJson),
    HttpReply(429, JStr(<<"quota">>)),
    TimeoutReply,
    ConnectionReply }

(* the environments of a call: the request parameters are complete or lack *)
(* the company or the year; dart_service is None when no API_KEY was set;  *)
(* GeminiService is constructed with or without its key                    *)
Environments ==
  [args : {"complete", "no_code", "no_year"}, dart_service : BOOLEAN, api_key : BOOLEAN,
   corp_name : {Names.a}, year : {<<"2", "0", "2", "3">>},
   dart : DartReplies, gemini : GeminiReplies]

InitService ==
  /\ pc = "idle"
  /\ replies = NoValue
  /\ requests_sent = NoRequests
  /\ prompt_sent = NoValue
  /\ response = NoValue
  /\ OthersUnused("service")

(* a call of get_financial_statement *)
GetFinancialStatement ==
  /\ pc = "idle"
  /\ \E env \in Environments :
       /\ env.args = "complete" /\ env.dart_service /\ env.api_key
       /\ env.gemini = TimeoutReply
       /\ LET call == get_financial_statement(env)
          IN  /\ replies' = env
              /\ requests_sent' = [dart |-> call.requests, gemini |-> 0]
              /\ prompt_sent' = NoValue
              /\ response' = call.result
  /\ pc' = "statement_returned"
  /\ UNCHANGED <<pipeVars, storeVars, parserVars>>

(* a call of _call_gemini_api *)
CallGeminiApi ==
  /\ pc = "idle"
  /\ \E env \in Environments :
       /\ env.args = "complete" /\ env.dart_service
       /\ env.dart = TimeoutReply
       /\ LET call == call_gemini_api(env, create_analysis_prompt(env.corp_name, EmptyDict))
          IN  /\ replies' = env
              /\ requests_sent' = [dart |-> 0, gemini |-> call.requests]
              /\ prompt_sent' = call.posted
              /\ response' = call.result
  /\ pc' = "generator_returned"
  /\ UNCHANGED <<pipeVars, storeVars, parserVars>>

(* GET /api/financial_data *)
GetFinancialData ==
  /\ pc = "idle"
  /\ \E env \in Environments :
       /\ env.api_key /\ env.gemini = TimeoutReply
       /\ LET run == get_financial_data(env)
          IN  /\ replies' = env
              /\ requests_sent' = run.sent
              /\ prompt_sent' = NoValue
              /\ response' = run.response
  /\ pc' = "financial_data_returned"
  /\ UNCHANGED <<pipeVars, storeVars, parserVars>>

(* GET /api/ai_analysis *)
AiAnalysis ==
  /\ pc = "idle"
  /\ \E env \in Environments :
       LET Returns(run) ==
             /\ replies' = env
             /\ requests_sent' = run.sent
             /\ prompt_sent' = run.posted
             /\ response' = run.response
       IN  Returns(ai_analysis(env))
  /\ pc' = "ai_analysis_returned"
  /\ UNCHANGED <<pipeVars, storeVars, parserVars>>

NextService == GetFinancialStatement \/ CallGeminiApi \/ GetFinancialData \/ AiAnalysis

SpecService == InitService /\ [][NextService]_vars

----------------------------------------------------------------------------
(* Properties of the registry *)

Loaded == pc \in {"loaded", "reloaded"}

(* the records of the feed of the last run *)
LastFeed == Get(feed_log[Len(feed_log)], "list", JArr(<<>>)).v

(* the value a record gives to a field: its own, or '' when it has none *)
FieldOf(company, k) == IF k \in DOMAIN company.f THEN company.f[k] ELSE JStr(<<>>)

(* the records the table takes: corp_code and corp_name are not null, and *)
(* stock_code is text                                                     *)
Loadable(company) ==
  /\ FieldOf(company, "corp_code") # JNull
  /\ FieldOf(company, "corp_name") # JNull
  /\ IsStr(FieldOf(company, "stock_code"))

Blank(s) == \A i \in 1..Len(s) : s[i] = " "

(* t is s without its leading and trailing blanks *)
Trimmed(s, t) ==
  /\ \E a \in 0..Len(s) : \E b \in a..Len(s) :
       /\ SubSeq(s, a + 1, b) = t
       /\ Blank(SubSeq(s, 1, a))
       /\ Blank(SubSeq(s, b + 1, Len(s)))
  /\ t # <<>> => t[1] # " " /\ t[Len(t)] # " "

(* the stored row carries the values of the record and nothing else *)
RowIs(stored, company) ==
  /\ stored.corp_name = FieldOf(company, "corp_name")
  /\ stored.corp_eng_name = FieldOf(company, "corp_eng_name")
  /\ stored.modify_date = FieldOf(company, "modify_date")
  /\ IsStr(stored.stock_code)
  /\ Trimmed(FieldOf(company, "stock_code").v, stored.stock_code.v)

RowsOf(table, code) == {i \in 1..Len(table) : table[i].corp_code = code}

(* record i of the last feed is the last one loaded for its corp_code *)
LastLoadedFor(i) ==
  /\ Loadable(LastFeed[i])
  /\ \A j \in (i + 1)..Len(LastFeed) :
       Loadable(LastFeed[j]) =>
         FieldOf(LastFeed[j], "corp_code") # FieldOf(LastFeed[i], "corp_code")

(* the corp_code of record i was in the table when record i was loaded *)
AlreadyStored(i) ==
  \/ RowsOf(before, FieldOf(LastFeed[i], "corp_code")) # {}
  \/ \E j \in 1..(i - 1) :
       /\ Loadable(LastFeed[j])
       /\ FieldOf(LastFeed[j], "corp_code") = FieldOf(LastFeed[i], "corp_code")

(* C11: after a run, the row of a corp_code that was already stored holds *)
(* exactly the values of the last record loaded for that corp_code:       *)
(* corp_name, corp_eng_name, stock_code and modify_date all come from     *)
(* that record, none from the prior row.                                  *)
C11_LastRecordReplacesRow ==
  Loaded =>
    \A i \in 1..Len(LastFeed) :
      LastLoadedFor(i) /\ AlreadyStored(i) =>
        LET rows == RowsOf(companies, FieldOf(LastFeed[i], "corp_code"))
        IN  /\ rows # {}
            /\ \A r \in rows : RowIs(companies[r], LastFeed[i])

(* a run replaced a row of an earlier run by a record that differs from it *)
(* in every field and leaves the optional ones out                         *)
C11_Witness ==
  /\ Loaded
  /\ \E i \in 1..Len(LastFeed) : \E b \in 1..Len(before) :
       /\ LastLoadedFor(i)
       /\ before[b].corp_code = FieldOf(LastFeed[i], "corp_code")
       /\ DOMAIN LastFeed[i].f = {"corp_code", "corp_name"}
       /\ before[b].corp_name # FieldOf(LastFeed[i], "corp_name")
       /\ before[b].corp_eng_name # JStr(<<>>)
       /\ before[b].stock_code # JStr(<<>>)
       /\ before[b].modify_date # JStr(<<>>)
       /\ \E r \in 1..Len(companies) :
            /\ companies[r].corp_code = before[b].corp_code
            /\ companies[r].corp_eng_name = JStr(<<>>)

StoredFields == {"corp_code", "corp_name", "corp_eng_name", "stock_code", "modify_date"}

(* the five columns of a row that come from the feed *)
Projection(stored) == [k \in StoredFields |-> stored[k]]

Occurrences(table, p) == Cardinality({i \in 1..Len(table) : Projection(table[i]) = p})

SameRows(t1, t2) ==
  \A p \in {Projection(t1[i]) : i \in 1..Len(t1)} \cup {Projection(t2[i]) : i \in 1..Len(t2)} :
    Occurrences(t1, p) = Occurrences(t2, p)

SameFeedTwice ==
  /\ pc = "reloaded"
  /\ feed_log[Len(feed_log)] = feed_log[Len(feed_log) - 1]

(* C12: when a run loads the feed the run before it loaded, the table     *)
(* holds the same rows (corp_code, corp_name, corp_eng_name, stock_code,  *)
(* modify_date) after it as before it.                                    *)
C12_SecondLoadChangesNoRow == SameFeedTwice => SameRows(companies, before)

(* the second load of a feed rewrote a row (new id) and added none *)
C12_Witness ==
  /\ SameFeedTwice
  /\ companies # <<>>
  /\ \E i \in 1..Len(LastFeed) : Loadable(LastFeed[i])
  /\ \A r \in 1..Len(companies) : \A b \in 1..Len(before) : companies[r].id # before[b].id

(* C13: the table never holds two rows with the same corp_code. *)
C13_CorpCodeUnique ==
  pc \in {"store", "loaded", "reloaded"} =>
    \A i, j \in 1..Len(companies) :
      companies[i].corp_code = companies[j].corp_code => i = j

(* a corp_code stored by an earlier run came twice in the feed of the last run *)
C13_Witness ==
  /\ Loaded
  /\ \E i, j \in 1..Len(LastFeed) :
       /\ i < j
       /\ Loadable(LastFeed[i]) /\ Loadable(LastFeed[j])
       /\ FieldOf(LastFeed[i], "corp_code") = FieldOf(LastFeed[j], "corp_code")
       /\ RowsOf(before, FieldOf(LastFeed[i], "corp_code")) # {}
       /\ RowsOf(companies, FieldOf(LastFeed[i], "corp_code")) # {}

(* the corp_codes the records of the last feed carry *)
FeedCodes == {FieldOf(LastFeed[i], "corp_code") : i \in 1..Len(LastFeed)}

(* C21: a run removes no company: every corp_code stored before the run is *)
(* stored after it, and a row whose corp_code the feed does not carry is   *)
(* the same row after the run, in every column.                            *)
C21_RunRemovesNoCompany ==
  Loaded =>
    \A b \in 1..Len(before) :
      /\ RowsOf(companies, before[b].corp_code) # {}
      /\ before[b].corp_code \notin FeedCodes =>
           \E r \in 1..Len(companies) : companies[r] = before[b]

(* the second run stored a company under a new corp_code and the table *)
(* still holds a row of the first run whose corp_code its feed lacks   *)
C21_Witness ==
  /\ pc = "reloaded"
  /\ \E b \in 1..Len(before) :
       /\ before[b].corp_code \notin FeedCodes
       /\ \E r \in 1..Len(companies) : companies[r] = before[b]
  /\ \E r \in 1..Len(companies) :
       /\ companies[r].corp_code \in FeedCodes
       /\ RowsOf(before, companies[r].corp_code) = {}

(* the record has the field k with a value *)
Carries(company, k) == k \in DOMAIN company.f /\ company.f[k] # JNull

(* C23: after a run, every record of the feed that carries a corp_code and *)
(* a corp_name has a row under its corp_code, whatever its optional fields *)
(* are: present, missing or without text (null).                           *)
C23_EveryRecordStored ==
  Loaded =>
    \A i \in 1..Len(LastFeed) :
      (Carries(LastFeed[i], "corp_code") /\ Carries(LastFeed[i], "corp_name")) =>
        RowsOf(companies, LastFeed[i].f.corp_code) # {}

----------------------------------------------------------------------------
(* Properties of the company search *)

(* /api/search_company answered a query that is not empty *)
Searched == pc = "searched" /\ "success" \in DOMAIN results

(* the query as the search uses it, and the rows it returned *)
SearchTerm == IF pc = "searched" THEN Strip(query) ELSE query
Found == IF pc = "searched" THEN results.results ELSE results

ExactName(r) == r.corp_name.v = SearchTerm
Listed(r) == r.stock_code.v # <<>>

(* row a may stand before row b: exact name first, then listed before *)
(* unlisted, then ascending corp_name                                 *)
InRankOrder(a, b) ==
  /\ ExactName(b) => ExactName(a)
  /\ (ExactName(a) <=> ExactName(b)) /\ Listed(b) => Listed(a)
  /\ (ExactName(a) <=> ExactName(b)) /\ (Listed(a) <=> Listed(b))
       => ~TextLess(b.corp_name.v, a.corp_name.v)

(* C14: a search by a query that is not empty returns at most 20 rows, in *)
(* the order: exact corp_name first, then rows with a stock_code before   *)
(* rows without, then ascending corp_name.                                *)
C14_AtMostTwentyInRankOrder ==
  Searched =>
    /\ results.count = Len(Found)
    /\ Len(Found) <= SearchLimit
    /\ \A i, j \in 1..Len(Found) : i < j => InRankOrder(Found[i], Found[j])

(* more than 20 companies matched; the 20 returned start with the exact *)
(* name, which is unlisted, go on with listed rows in name order and    *)
(* end with unlisted rows                                               *)
C14_Witness ==
  /\ Searched
  /\ Len(companies) > SearchLimit
  /\ \A i \in 1..Len(companies) : Contains(companies[i].corp_name.v, SearchTerm)
  /\ Len(Found) = SearchLimit
  /\ ExactName(Found[1]) /\ ~Listed(Found[1])
  /\ ~ExactName(Found[2]) /\ Listed(Found[2])
  /\ Listed(Found[3]) /\ TextLess(Found[2].corp_name.v, Found[3].corp_name.v)
  /\ ~Listed(Found[SearchLimit])
  /\ \E k \in 4..SearchLimit :
       ~Listed(Found[k]) /\ TextLess(Found[k].corp_name.v, Found[2].corp_name.v)

SearchDone == Searched \/ pc = "cli_searched"

RowLimit == IF pc = "searched" THEN SearchLimit ELSE TestSearchLimit

(* q occurs in s, character for character *)
HasSubstring(s, q) == \E i \in 0..(Len(s) - Len(q)) : SubSeq(s, i + 1, i + Len(q)) = q

(* C15: every row a search returns has a corp_name that contains the query *)
(* as a literal substring, and a stored company whose corp_name contains   *)
(* it is left out only when the row limit is reached.                      *)
C15_EligibleIffLiteralSubstring ==
  SearchDone =>
    /\ \A k \in 1..Len(Found) : HasSubstring(Found[k].corp_name.v, SearchTerm)
    /\ Len(Found) < RowLimit =>
         \A i \in 1..Len(companies) :
           HasSubstring(companies[i].corp_name.v, SearchTerm) =>
             \E k \in 1..Len(Found) : Found[k].corp_code = companies[i].corp_code

----------------------------------------------------------------------------
(* Properties of the bulk-feed converters *)

ConversionDone == pc \in {"downloader_done", "converter_done"}

RECURSIVE ListElements(_)
(* the number of 'list' elements at or below a node *)
ListElements(node) ==
  LET below[i \in 0..Len(node.kids)] ==
        IF i = 0 THEN 0 ELSE below[i - 1] + ListElements(node.kids[i])
  IN  (IF node.tag = "list" THEN 1 ELSE 0) + below[Len(node.kids)]

(* the feed holds no entity element: it cannot be read, or no element *)
(* below its root is a 'list'                                         *)
NoEntityNodes == ~IsTree(xml_file) \/ ListElements(xml_file) = 0

(* C16: a conversion of a feed without any entity node fails and writes no *)
(* record file; a conversion of a feed with entity nodes succeeds and      *)
(* writes one.                                                             *)
C16_FailsIffNoEntity ==
  ConversionDone =>
    IF NoEntityNodes THEN converted = FALSE /\ json_file = NoValue
    ELSE converted = TRUE /\ json_file # NoValue

ListChildren(node) == {i \in 1..Len(node.kids) : node.kids[i].tag = "list"}

IsEntity(node) == node.tag = "list" /\ node.kids # <<>> /\ ListChildren(node) = {}

(* the root's children that are not entities *)
NonEntityChildren(root) == {i \in 1..Len(root.kids) : ~IsEntity(root.kids[i])}

(* repeated entity elements under the root, no wrapper *)
FlatFeed ==
  /\ IsTree(xml_file)
  /\ \E i \in 1..Len(xml_file.kids) : IsEntity(xml_file.kids[i])
  /\ \A i \in NonEntityChildren(xml_file) : xml_file.kids[i].tag # "list"

(* the entity elements under one wrapper element *)
WrappedFeed ==
  /\ IsTree(xml_file)
  /\ \E w \in 1..Len(xml_file.kids) :
       /\ ListChildren(xml_file) = {w}
       /\ xml_file.kids[w].kids # <<>>
       /\ \A k \in 1..Len(xml_file.kids[w].kids) : IsEntity(xml_file.kids[w].kids[k])

(* the entity elements of the feed, in document order *)
EntitiesOf(root) ==
  IF ListChildren(root) # {} /\ ~IsEntity(root.kids[CHOOSE w \in ListChildren(root) : TRUE])
    THEN root.kids[CHOOSE w \in ListChildren(root) : TRUE].kids
  ELSE SelectSeq(root.kids, IsEntity)

(* the mapping holds every child tag of the entity with that child's text *)
MappingOf(mapping, entity) ==
  /\ mapping.t = "obj"
  /\ DOMAIN mapping.f = {entity.kids[i].tag : i \in 1..Len(entity.kids)}
  /\ \A i \in 1..Len(entity.kids) : mapping.f[entity.kids[i].tag] = entity.kids[i].text

(* C17: for a feed of either shape the converter writes one mapping per *)
(* entity element, in document order, and no other record.              *)
C17_OneMappingPerEntity ==
  ConversionDone /\ (FlatFeed \/ WrappedFeed) =>
    /\ converted = TRUE
    /\ json_file # NoValue
    /\ LET records == json_file.f.list.v
           entities == EntitiesOf(xml_file)
       IN  /\ Len(records) = Len(entities)
           /\ \A k \in 1..Len(entities) : MappingOf(records[k], entities[k])

----------------------------------------------------------------------------
(* Properties of the service calls *)

(* a call or endpoint returned after it asked the statement service *)
StatementAsked ==
  /\ pc \in {"statement_returned", "financial_data_returned", "ai_analysis_returned"}
  /\ replies.args = "complete"
  /\ replies.dart_service

(* the statement service answered with a status other than '000' and a *)
(* message                                                             *)
NonSuccessStatus ==
  /\ StatementAsked
  /\ replies.dart.kind = "http"
  /\ replies.dart.code = 200
  /\ IsDict(replies.dart.body)
  /\ Get(replies.dart.body, "status", JNull) # JStr(<<"000">>)
  /\ "message" \in DOMAIN replies.dart.body.f

ServiceMessage == replies.dart.body.f.message

(* the message as text *)
MessageText == IF ServiceMessage = JNull THEN <<"None">> ELSE ServiceMessage.v

(* C18 as stated: on a status other than '000', get_financial_statement, *)
(* /api/financial_data and /api/ai_analysis all return an error result   *)
(* whose message is the service's message, unchanged.                    *)
C18_MessageVerbatim ==
  NonSuccessStatus => response = JObj([error |-> ServiceMessage])

(* C18: on a status other than '000', get_financial_statement and         *)
(* /api/financial_data return an error result whose message is the        *)
(* service's message unchanged, and /api/ai_analysis returns an error     *)
(* result whose message is the fixed text of app.py line 202 followed by  *)
(* the service's message.                                                 *)
C18_MessageVerbatimOrPrefixed ==
  NonSuccessStatus =>
    IF pc = "ai_analysis_returned"
      THEN response = JObj([error |-> JStr(<<"statement unavailable: ">> \o MessageText)])
    ELSE response = JObj([error |-> ServiceMessage])

(* /api/ai_analysis forwarded the message of a status '013' *)
C18_Witness ==
  /\ NonSuccessStatus
  /\ pc = "ai_analysis_returned"
  /\ Get(replies.dart.body, "status", JNull) = JStr(<<"013">>)
  /\ ServiceMessage = ErrorMessage
  /\ response.f.error.v = <<"statement unavailable: ">> \o ErrorMessage.v
  /\ requests_sent = [dart |-> 1, gemini |-> 0]

(* the request to the statement service failed: an exception, an HTTP *)
(* status other than 200, or a status other than '000'                *)
StatementFailed ==
  \/ replies.dart.kind # "http"
  \/ replies.dart.code # 200
  \/ ~IsDict(replies.dart.body)
  \/ Get(replies.dart.body, "status", JNull) # JStr(<<"000">>)

(* the request to the generator failed: an exception or an HTTP status *)
(* other than 200                                                      *)
GeneratorFailed == replies.gemini.kind # "http" \/ replies.gemini.code # 200

(* C19: a call of get_financial_statement issues one request and a call of *)
(* _call_gemini_api at most one; when the request fails the call returns   *)
(* an error result and has issued no further request.  The endpoints       *)
(* issue at most one request to each service.                              *)
C19_SingleAttempt ==
  /\ pc = "statement_returned" =>
       /\ requests_sent.dart = 1
       /\ StatementFailed => "error" \in DOMAIN response.f
  /\ pc = "generator_returned" =>
       /\ requests_sent.gemini = (IF replies.api_key THEN 1 ELSE 0)
       /\ GeneratorFailed \/ ~replies.api_key =>
            response.success = FALSE /\ "error" \in DOMAIN response
  /\ pc \in {"financial_data_returned", "ai_analysis_returned"} =>
       requests_sent.dart <= 1 /\ requests_sent.gemini <= 1

(* get_financial_statement returned an error after its one request timed out *)
C19_Witness ==
  /\ pc = "statement_returned"
  /\ replies.dart = TimeoutReply
  /\ requests_sent.dart = 1
  /\ response = JObj([error |-> JStr(TimeoutReply.text)])

(* C24: when /api/financial_data answers with success true, its data is *)
(* the complete canonical structure: company metadata, the three        *)
(* statement buckets and the built summary, and no error field.         *)
C24_SuccessCarriesCompleteData ==
  (pc = "financial_data_returned" /\ "success" \in DOMAIN response.f) =>
    /\ DOMAIN response.f.data.f = {"company_info", "financial_statements", "summary"}
    /\ DOMAIN response.f.data.f.financial_statements = BucketNames
    /\ DOMAIN response.f.data.f.summary = SummaryNames

(* the result of the statement fetch of the request *)
Fetched == StatementResult(replies.dart)

(* the request ends at the validation of its parameters and services *)
Refused == replies.args # "complete" \/ ~replies.dart_service

(* C25: in a request of /api/ai_analysis the generator is called at most  *)
(* once, and only after the statement was fetched without error: the      *)
(* prompt posted is the one built from the metrics extracted from the     *)
(* normalized statement.  A missing parameter or an unavailable service   *)
(* ends the request with an error before any fetch, and a source error    *)
(* ends it with an error before any generator call.                       *)
C25_GeneratorCalledLast ==
  pc = "ai_analysis_returned" =>
    /\ requests_sent.gemini <= 1
    /\ requests_sent.gemini = 1 =>
         /\ ~Refused
         /\ requests_sent.dart = 1
         /\ "error" \notin DOMAIN Fetched.f
         /\ prompt_sent =
              create_analysis_prompt(
                replies.corp_name,
                analyze_key_metrics(format_financial_data(Fetched)).metrics)
    /\ Refused =>
         /\ "error" \in DOMAIN response.f
         /\ requests_sent = NoRequests /\ prompt_sent = NoValue
    /\ (~Refused /\ "error" \in DOMAIN Fetched.f) =>
         /\ "error" \in DOMAIN response.f
         /\ requests_sent.gemini = 0 /\ prompt_sent = NoValue

(* a request answered with the analysis: one fetch, then one generator *)
(* call whose prompt carries the metrics of the fetched statement      *)
C25_Witness ==
  /\ pc = "ai_analysis_returned"
  /\ "success" \in DOMAIN response.f
  /\ requests_sent = [dart |-> 1, gemini |-> 1]
  /\ prompt_sent # NoValue
  /\ "total_assets" \in DOMAIN prompt_sent.metrics.balance_sheet
  /\ response.f.key_metrics = prompt_sent.metrics

====
